---- MODULE Spec2Model ----
(***************************************************************************)
(* Edge-node session of the Sparkplug B client library: the EdgeNode       *)
(* class (src/src/edge_node.cpp) and the older Publisher class             *)
(* (src/src/publisher.cpp), driven by one application thread, over an MQTT *)
(* transport whose link can drop at any time; and the HostApplication      *)
(* class (src/src/host_application.cpp), which publishes STATE and sends   *)
(* the commands the session's on_message_arrived callback receives.        *)
(***************************************************************************)
EXTENDS Integers, Sequences, FiniteSets, TLC

VARIABLES
    impl,      \* which class the session object is: "EdgeNode" or "Publisher"
    config,    \* Config: [command_callback : BOOLEAN]
    node,      \* the session object's data members
    mqtt,      \* the MQTT client behind client_: link, armed will, pending callback
    lastOp,    \* the most recent call or callback: what it returned, what it published
    obs,       \* history of the run (what an observer of the wire has seen)
    host,      \* a HostApplication object: its Config, data members and MQTT link
    hostOp,    \* the most recent HostApplication call: its result, what it published
    cmd,       \* NCMD traffic towards the session: queued at the broker, delivered, handled
    thr,       \* application threads inside a session call: where each is, its locals
    sub,       \* a Subscriber object: its node-state map and callback records
    fn,        \* a call of a pure function: its argument and what it returned
    mutex      \* mutex_ of the session object: the thread that holds it, or NoOwner

\* The variables only the specifications of threads, of the Subscriber and of
\* the pure functions change.
ext == <<thr, sub, fn, mutex>>

vars == <<impl, config, node, mqtt, lastOp, obs, host, hostOp, cmd, thr, sub, fn,
          mutex>>

\* ------------------------------------------------------------------ bounds
MaxBdSeq == 2      \* connect()/rebirth() are not started once bd_seq reaches this
MaxSeq == 1        \* data is not published once a counter reaches this (but see MaxData)
MaxData == 258     \* SpecWrap: NDATA messages counted per NBIRTH (more than one wrap)

\* --------------------------------------------------------------- constants
SEQ_NUMBER_MAX == 256

Devices == {"d1"}
NoSeq == 0 - 1     \* "the caller set no seq"

\* ------------------------------------------------------------ payload codec
\* org::eclipse::tahu::protobuf::Payload as far as the session reads it.
Payload ==
    [has_timestamp |-> FALSE, has_seq |-> FALSE, seq |-> 0, metrics |-> <<>>]

TimestampField == [field |-> "timestamp", name |-> "", value |-> 0]
SeqField(s) == [field |-> "seq", name |-> "", value |-> s]
MetricField(m) == [field |-> "metrics", name |-> m.name, value |-> m.value]

\* Serialization writes the set fields in field-number order:
\* timestamp (1), metrics (2, repeated), seq (3).
SerializeToArray(p) ==
    (IF p.has_timestamp THEN <<TimestampField>> ELSE <<>>)
    \o [i \in 1..Len(p.metrics) |-> MetricField(p.metrics[i])]
    \o (IF p.has_seq THEN <<SeqField(p.seq)>> ELSE <<>>)

IsSeqField(f) == f.field = "seq"
IsMetricField(f) == f.field = "metrics"
IsTimestampField(f) == f.field = "timestamp"

ParseFromArray(bytes) ==
    LET seqs == SelectSeq(bytes, IsSeqField)
        ms == SelectSeq(bytes, IsMetricField)
    IN [has_timestamp |-> SelectSeq(bytes, IsTimestampField) # <<>>,
        has_seq |-> seqs # <<>>,
        seq |-> IF seqs # <<>> THEN seqs[Len(seqs)].value ELSE 0,
        metrics |-> [i \in 1..Len(ms) |-> [name |-> ms[i].name, value |-> ms[i].value]]]

\* PayloadBuilder: the constructor stamps the payload timestamp.
PayloadBuilder ==
    [payload |-> [Payload EXCEPT !.has_timestamp = TRUE], seq_explicitly_set |-> FALSE]

set_seq(b, s) ==
    [b EXCEPT !.payload.has_seq = TRUE, !.payload.seq = s, !.seq_explicitly_set = TRUE]

add_metric(b, name, value) ==
    [b EXCEPT !.payload.metrics = Append(@, [name |-> name, value |-> value])]

has_seq(b) == b.seq_explicitly_set

build(b) == SerializeToArray(b.payload)

\* The bdSeq metrics of serialized payload bytes, in order.
IsBdSeq(m) == m.name = "bdSeq"
BdSeqValues(bytes) ==
    LET ms == SelectSeq(ParseFromArray(bytes).metrics, IsBdSeq)
    IN [i \in 1..Len(ms) |-> ms[i].value]

\* ------------------------------------------------------------------ topics
\* A topic string is modelled by its '/'-separated elements.
NAMESPACE == "spBv1.0"

MessageType ==
    {"NBIRTH", "NDEATH", "DBIRTH", "DDEATH", "NDATA", "DDATA", "NCMD", "DCMD", "STATE"}

Topic(group_id, message_type, edge_node_id, device_id) ==
    [group_id |-> group_id, message_type |-> message_type,
     edge_node_id |-> edge_node_id, device_id |-> device_id]

to_string(t) ==
    IF t.message_type = "STATE"
    THEN <<"STATE", t.edge_node_id>>
    ELSE LET base == <<NAMESPACE, t.group_id, t.message_type, t.edge_node_id>>
         IN IF t.device_id # "" THEN Append(base, t.device_id) ELSE base

\* Topic::parse: the Topic, or no value ("error") for a string it rejects.
ParseError == [error |-> "Invalid topic"]

parse(elements) ==
    IF Len(elements) < 2 THEN ParseError
    ELSE IF elements[1] = "STATE" THEN Topic("", "STATE", elements[2], "")
    ELSE IF Len(elements) < 4 \/ elements[1] # NAMESPACE THEN ParseError
    ELSE IF elements[3] \notin MessageType THEN ParseError
    ELSE Topic(elements[2], elements[3], elements[4],
               IF Len(elements) > 4 THEN elements[5] ELSE "")

\* ------------------------------------------------- what the caller can pass
CallerSeqs == {300}
StaleBdSeqs == {9}

\* Birth payloads: a plain metric; the examples' habit of adding
\* bdSeq = get_bd_seq() by hand; a bdSeq metric of the caller's own.
BirthBuilders(bd) ==
    LET plain == add_metric(PayloadBuilder, "Temperature", 20)
    IN {plain, add_metric(plain, "bdSeq", bd)}
       \cup {add_metric(PayloadBuilder, "bdSeq", v) : v \in StaleBdSeqs}
       \cup {set_seq(plain, s) : s \in CallerSeqs}

AutoSeqBuilders == {add_metric(PayloadBuilder, "Temperature", 21)}
DataBuilders == AutoSeqBuilders \cup {set_seq(b, s) : b \in AutoSeqBuilders, s \in CallerSeqs}

CallerSeq(b) == IF has_seq(b) THEN b.payload.seq ELSE NoSeq

\* ---------------------------------------------------------------- transport
NoWill == [armed |-> FALSE, payload |-> <<>>, retained |-> FALSE]
NoClient == [link |-> "down", will |-> NoWill, lost_pending |-> FALSE,
             subscribed |-> FALSE]
NoMsg == [type |-> "none", device |-> "", payload |-> <<>>, retained |-> FALSE]

\* ------------------------------------------------------------- construction
DeviceState == [present |-> FALSE, seq_num |-> 0, last_birth_payload |-> <<>>,
                is_online |-> FALSE]

PublisherFields ==
    [client |-> FALSE, seq_num |-> 0, bd_seq_num |-> 0,
     death_payload_data |-> <<>>, last_birth_payload |-> <<>>,
     device_states |-> [d \in Devices |-> DeviceState],
     is_connected |-> FALSE]

\* The EdgeNode members (edge_node.hpp): same members, same initial values.
EdgeNodeFields == PublisherFields

\* nbirth_in_session: an NBIRTH was published on the current connection;
\* dbirth_in_session[d]: so was a DBIRTH for d, with no DDEATH for d since;
\* ndata, ddata[d]: NDATA / DDATA messages published since the last NBIRTH /
\* DBIRTH for d, in the runs that keep count (SpecWrap);
\* lost: the connection-lost callback has run and no connect() has returned
\* success since;
\* stamped: NDATA payloads given their seq since the latest NBIRTH was handed
\* to the transport, in the runs with threads.
NoObs ==
    [nbirth_in_session |-> FALSE,
     dbirth_in_session |-> [d \in Devices |-> FALSE],
     ndata |-> 0,
     ddata |-> [d \in Devices |-> 0],
     lost |-> FALSE,
     stamped |-> 0]

\* ------------------------------------------------- HostApplication, commands
\* HostApplication::Config as far as publishing reads it, and the members the
\* constructor leaves (host_application.hpp: is_connected_{false}, no client).
HostConfig(host_id, qos) == [host_id |-> host_id, qos |-> qos]

HostApplication(c) ==
    [config |-> c, client |-> FALSE, is_connected |-> FALSE, link |-> "down"]

\* No NCMD is at the broker, none is waiting in the session's client, and the
\* command callback has not been invoked.
NoCmd == [broker |-> {}, delivered |-> {}, invoked |-> {}]

\* A message as HostApplication hands it to MQTTAsync_sendMessage.
NoHostMsg == [topic |-> <<>>, payload |-> <<>>, qos |-> 0, retained |-> FALSE]

HostReturned(op, ok, msg) == [op |-> op, ok |-> ok, msg |-> msg]

\* No thread is inside a call, no Subscriber has received anything, no pure
\* function has been called.
NoThreads == [t \in {} |-> "idle"]
NoSubscriber == [nodes |-> {}]
NoCall == [f |-> "none"]
NoOwner == "unlocked"

ExtIdle ==
    /\ thr = NoThreads
    /\ sub = NoSubscriber
    /\ fn = NoCall
    /\ mutex = NoOwner

\* What a call left behind: its result, the message it handed to the transport
\* (NoMsg when it published nothing; for a connection loss, the will the
\* broker published), and the seq the caller had set on the payload of that
\* message.
Returned(op, ok, msg, dev, b) ==
    [op |-> op, ok |-> ok, msg |-> msg, device |-> dev,
     caller_seq |-> IF msg = NoMsg THEN NoSeq ELSE CallerSeq(b)]

\* A session object of either class as its constructor leaves it, beside a
\* host that has not connected.
Constructed ==
    /\ impl \in {"EdgeNode", "Publisher"}
    /\ config \in [command_callback : BOOLEAN]
    /\ node = (IF impl = "EdgeNode" THEN EdgeNodeFields ELSE PublisherFields)
    /\ mqtt = NoClient
    /\ lastOp = [op |-> "constructed", ok |-> TRUE, msg |-> NoMsg, device |-> "",
                 caller_seq |-> NoSeq]
    /\ obs = NoObs
    /\ host = HostApplication(HostConfig("SCADA01", 1))
    /\ hostOp = HostReturned("constructed", TRUE, NoHostMsg)
    /\ cmd = NoCmd

Init == Constructed /\ ExtIdle

\* The object exists: no call follows the destructor.
Alive == lastOp.op # "destructor"

Rejected(op, dev) ==
    /\ lastOp' = Returned(op, FALSE, NoMsg, dev, PayloadBuilder)
    /\ UNCHANGED <<ext, host, hostOp, cmd, impl, config, node, mqtt, obs>>

\* A new MQTT session starts: nothing has been born in it yet.
NewSession(o) ==
    [o EXCEPT !.nbirth_in_session = FALSE,
              !.dbirth_in_session = [d \in Devices |-> FALSE]]

\* -------------------------------------------------------------- connect()
\* How a connect() call can go, one value per early return that leaves a
\* state of its own:
\*   create_failed         MQTTAsync_create fails
\*   set_callbacks_failed  MQTTAsync_setCallbacks fails (EdgeNode sets them first)
\*   connect_failed        MQTTAsync_connect refuses, times out or reports failure
\*   subscribe_failed      connected, but the NCMD subscription (or, in Publisher,
\*                         setting its callback) is refused, times out or fails
\*   connected             connect() returns success
ConnectOutcomes ==
    {"create_failed", "connect_failed", "connected"}
    \cup (IF impl = "EdgeNode" THEN {"set_callbacks_failed"} ELSE {})
    \cup (IF config.command_callback THEN {"subscribe_failed"} ELSE {})

Established(o) == o \in {"connected", "subscribe_failed"}

\* The NCMD subscription is made, after the connection, only for a session
\* configured with a command callback.
Subscribes(o) == config.command_callback /\ o = "connected"

\* bd_seq_num_ as connect() leaves it once the client exists: EdgeNode
\* increments it for the session, Publisher arms the will with it as it is.
ConnectBdSeq(n) == IF impl = "EdgeNode" THEN n.bd_seq_num + 1 ELSE n.bd_seq_num

\* The NDEATH payload connect() prepares.
DeathPayload(bd) == build(add_metric(PayloadBuilder, "bdSeq", bd))

connect_call(n, m, o) ==
    IF o = "create_failed"
    THEN [node |-> n, mqtt |-> m, ok |-> FALSE]
    ELSE LET n1 == [n EXCEPT !.client = TRUE]      \* the old client is destroyed
             m1 == NoClient
         IN IF o = "set_callbacks_failed"
            THEN [node |-> n1, mqtt |-> m1, ok |-> FALSE]
            ELSE LET bd == ConnectBdSeq(n1)
                     n2 == [n1 EXCEPT !.bd_seq_num = bd,
                                      !.death_payload_data = DeathPayload(bd)]
                 IN IF ~Established(o)
                    THEN [node |-> n2, mqtt |-> m1, ok |-> FALSE]
                    ELSE [node |-> [n2 EXCEPT !.is_connected = TRUE],
                          mqtt |-> [m1 EXCEPT !.link = "up",
                                              !.will = [armed |-> TRUE,
                                                        payload |-> n2.death_payload_data,
                                                        retained |-> FALSE],
                                              !.subscribed = Subscribes(o)],
                          ok |-> (o = "connected")]

Connect(outcomes) ==
    /\ Alive
    /\ node.bd_seq_num < MaxBdSeq
    /\ \E o \in outcomes :
         LET r == connect_call(node, mqtt, o)
         IN /\ node' = r.node
            /\ mqtt' = r.mqtt
            /\ obs' = [(IF Established(o) THEN NewSession(obs) ELSE obs)
                          EXCEPT !.lost = @ /\ ~r.ok]
            /\ lastOp' = Returned("connect", r.ok, NoMsg, "", PayloadBuilder)
            /\ UNCHANGED <<ext, host, hostOp, cmd, impl, config>>

connect == Connect(ConnectOutcomes)

\* ----------------------------------------------------------- disconnect()
DisconnectOutcomes == {"success", "failure", "timeout"}

\* Faulty variant of disconnect_call: success is reported and nothing is done.
disconnect_call_noop(n, m, o) == [node |-> n, mqtt |-> m, ok |-> TRUE]

\* MQTTAsync_disconnect refuses (rc != MQTTASYNC_SUCCESS) a client that is not
\* connected; otherwise success, failure and timeout all clear is_connected_.
disconnect_call(n, m, o) ==
    IF ~n.client \/ m.link # "up"
    THEN [node |-> n, mqtt |-> m, ok |-> FALSE]
    ELSE [node |-> [n EXCEPT !.is_connected = FALSE],
          mqtt |-> [m EXCEPT !.link = "down", !.will = NoWill,
                             !.subscribed = FALSE],
          ok |-> TRUE]

\* Faulty variant of DisconnectMsg: disconnect() publishes the stored NDEATH.
DisconnectSendsDeath(n) ==
    [type |-> "NDEATH", device |-> "", payload |-> n.death_payload_data,
     retained |-> FALSE]

\* What disconnect() itself hands to the transport to publish: nothing.
DisconnectMsg(n) == NoMsg

disconnect ==
    \E o \in DisconnectOutcomes :
        LET r == disconnect_call(node, mqtt, o)
        IN /\ Alive
           /\ node' = r.node
           /\ mqtt' = r.mqtt
           /\ lastOp' = Returned("disconnect", r.ok, DisconnectMsg(node), "", PayloadBuilder)
           /\ UNCHANGED <<ext, host, hostOp, cmd, impl, config, obs>>

\* ------------------------------------------------------- publish_message()
\* MQTTAsync_sendMessage accepts a message only on a connected client.
MQTTAsync_sendMessage(m, send_ok) == m.link = "up" /\ send_ok

publish_message(n, m, send_ok) ==
    /\ n.client
    /\ (impl = "Publisher" => n.is_connected)
    /\ MQTTAsync_sendMessage(m, send_ok)

Message(type, dev, bytes) ==
    [type |-> type, device |-> dev, payload |-> bytes, retained |-> FALSE]

\* --------------------------------------------------------- publish_birth()
HasBdSeq(b) == \E i \in 1..Len(b.payload.metrics) : b.payload.metrics[i].name = "bdSeq"

\* Faulty variant of BirthPayload: the seq is left as the caller built it.
BirthPayloadKeepsSeq(b, bd) ==
    IF HasBdSeq(b) THEN b ELSE add_metric(b, "bdSeq", bd)

\* The payload as publish_birth stamps it: seq forced to 0, and a bdSeq
\* metric added only when no metric of that name is there.
BirthPayload(b, bd) ==
    LET b1 == set_seq(b, 0)
    IN IF HasBdSeq(b1) THEN b1 ELSE add_metric(b1, "bdSeq", bd)

\* bd_seq_num_ after a published NBIRTH: Publisher increments it there.
BirthBdSeq(n) == IF impl = "Publisher" THEN n.bd_seq_num + 1 ELSE n.bd_seq_num

PublishBirth(builders, sends) ==
    /\ Alive
    /\ (impl = "Publisher" => node.bd_seq_num < MaxBdSeq)
    /\ IF ~node.is_connected
       THEN Rejected("publish_birth", "")
       ELSE \E b \in builders, send_ok \in sends :
              LET payload_data == build(BirthPayload(b, node.bd_seq_num))
                  sent == publish_message(node, mqtt, send_ok)
              IN /\ node' = (IF sent
                             THEN [node EXCEPT !.last_birth_payload = payload_data,
                                               !.seq_num = 0,
                                               !.bd_seq_num = BirthBdSeq(node)]
                             ELSE node)
                 /\ obs' = (IF sent
                            THEN [obs EXCEPT !.nbirth_in_session = TRUE, !.ndata = 0]
                            ELSE obs)
                 /\ lastOp' = Returned("publish_birth", sent,
                                       IF sent THEN Message("NBIRTH", "", payload_data) ELSE NoMsg,
                                       "", b)
                 /\ UNCHANGED <<ext, host, hostOp, cmd, impl, config, mqtt>>

publish_birth == PublishBirth(BirthBuilders(node.bd_seq_num), BOOLEAN)

\* ---------------------------------------------------------- publish_data()
\* Faulty variant of NextSeq: the counter is not reduced modulo 256.
NextSeqUnwrapped(s) == s + 1

NextSeq(s) == (s + 1) % SEQ_NUMBER_MAX

\* Faulty variant of DataPayload: every data message is stamped from the
\* node's counter as it stood before the call.
DataPayloadFromNodeCounter(b, s) == IF has_seq(b) THEN b ELSE set_seq(b, node.seq_num)

\* The payload as publish_data / publish_device_data stamp it.
DataPayload(b, s) == IF has_seq(b) THEN b ELSE set_seq(b, s)

PublishData(builders, sends, counting) ==
    Alive /\
    IF ~node.is_connected
    THEN Rejected("publish_data", "")
    ELSE \E b \in builders, send_ok \in sends :
             LET s == NextSeq(node.seq_num)
                 payload_data == build(DataPayload(b, s))
                 sent == publish_message(node, mqtt, send_ok)
             IN /\ node' = [node EXCEPT !.seq_num = s]
                /\ obs' = (IF counting /\ sent THEN [obs EXCEPT !.ndata = @ + 1] ELSE obs)
                /\ lastOp' = Returned("publish_data", sent,
                                      IF sent THEN Message("NDATA", "", payload_data) ELSE NoMsg,
                                      "", b)
                /\ UNCHANGED <<ext, host, hostOp, cmd, impl, config, mqtt>>

publish_data == node.seq_num < MaxSeq /\ PublishData(DataBuilders, BOOLEAN, FALSE)

\* --------------------------------------------------------- publish_death()
\* The body of publish_death() on session n over transport m: the members and
\* transport it leaves, its result, and the message it handed to the broker.
publish_death_call(n, m, send_ok, o) ==
    IF ~n.is_connected
    THEN [node |-> n, mqtt |-> m, ok |-> FALSE, msg |-> NoMsg]
    ELSE LET sent == publish_message(n, m, send_ok)
             r == IF sent THEN disconnect_call(n, m, o)
                  ELSE [node |-> n, mqtt |-> m, ok |-> FALSE]
         IN [node |-> r.node, mqtt |-> r.mqtt, ok |-> r.ok,
             msg |-> IF sent THEN Message("NDEATH", "", n.death_payload_data)
                     ELSE NoMsg]

publish_death ==
    Alive /\
    IF ~node.is_connected
    THEN Rejected("publish_death", "")
    ELSE \E send_ok \in BOOLEAN, o \in DisconnectOutcomes :
             LET r == publish_death_call(node, mqtt, send_ok, o)
             IN /\ node' = r.node
                /\ mqtt' = r.mqtt
                /\ lastOp' = Returned("publish_death", r.ok, r.msg, "", PayloadBuilder)
                /\ UNCHANGED <<ext, host, hostOp, cmd, impl, config, obs>>

\* --------------------------------------------------------------- rebirth()
\* Faulty variant of RebirthBdSeq: the member is never incremented here.
RebirthBdSeqKept(n) == n.bd_seq_num

\* bd_seq_num_ when rebirth() has parsed the stored birth: Publisher
\* increments the member there, EdgeNode only computes bd_seq_num_ + 1.
RebirthBdSeq(n) == IF impl = "Publisher" THEN n.bd_seq_num + 1 ELSE n.bd_seq_num
\* Faulty variant of RebirthNewBdSeq: the stored birth keeps the old bdSeq.
RebirthOldBdSeq(n) == n.bd_seq_num

\* uint64_t new_bdseq = bd_seq_num_ + 1
RebirthNewBdSeq(n) == n.bd_seq_num + 1

\* The loop over the metrics: the first one named bdSeq gets the new value.
SetFirstBdSeq(metrics, v) ==
    LET idx == {i \in 1..Len(metrics) : metrics[i].name = "bdSeq"}
    IN IF idx = {} THEN metrics
       ELSE LET k == CHOOSE i \in idx : \A j \in idx : i <= j
            IN [metrics EXCEPT ![k].value = v]

RebirthPayload(bytes, bd) ==
    LET p == ParseFromArray(bytes)
    IN SerializeToArray([p EXCEPT !.metrics = SetFirstBdSeq(@, bd),
                                  !.has_seq = TRUE, !.seq = 0])

rebirth ==
    /\ Alive
    /\ node.bd_seq_num < MaxBdSeq
    /\ IF ~node.is_connected \/ node.last_birth_payload = <<>>
       THEN Rejected("rebirth", "")
       ELSE \E od \in DisconnectOutcomes, oc \in ConnectOutcomes, send_ok \in BOOLEAN :
              LET payload_data == RebirthPayload(node.last_birth_payload,
                                                 RebirthNewBdSeq(node))
                  n0 == [node EXCEPT !.bd_seq_num = RebirthBdSeq(node),
                                     !.last_birth_payload = payload_data]
                  r1 == disconnect_call(n0, mqtt, od)
                  r2 == IF r1.ok THEN connect_call(r1.node, r1.mqtt, oc) ELSE r1
                  reconnected == r1.ok /\ Established(oc)
                  sent == r2.ok /\ publish_message(r2.node, r2.mqtt, send_ok)
              IN /\ node' = (IF sent THEN [r2.node EXCEPT !.seq_num = 0] ELSE r2.node)
                 /\ mqtt' = r2.mqtt
                 /\ obs' = LET o1 == IF reconnected THEN NewSession(obs) ELSE obs
                           IN IF sent
                              THEN [o1 EXCEPT !.nbirth_in_session = TRUE, !.ndata = 0]
                              ELSE o1
                 /\ lastOp' = Returned("rebirth", sent,
                                       IF sent THEN Message("NBIRTH", "", payload_data) ELSE NoMsg,
                                       "", PayloadBuilder)
                 /\ UNCHANGED <<ext, host, hostOp, cmd, impl, config>>

\* -------------------------------------------------- publish_device_birth()
DeviceBuilders ==
    LET plain == add_metric(PayloadBuilder, "value", 42)
    IN {plain} \cup {set_seq(plain, s) : s \in CallerSeqs}

PublishDeviceBirth(builders, sends) ==
    \E d \in Devices :
        Alive /\
        IF ~node.is_connected \/ node.last_birth_payload = <<>>
        THEN Rejected("publish_device_birth", d)
        ELSE \E b \in builders, send_ok \in sends :
             LET payload_data == build(set_seq(b, 0))
                 sent == publish_message(node, mqtt, send_ok)
             IN /\ node' = (IF sent
                            THEN [node EXCEPT !.device_states[d] =
                                     [present |-> TRUE, seq_num |-> 0,
                                      last_birth_payload |-> payload_data,
                                      is_online |-> TRUE]]
                            ELSE node)
                /\ obs' = (IF sent
                           THEN [obs EXCEPT !.dbirth_in_session[d] = TRUE, !.ddata[d] = 0]
                           ELSE obs)
                /\ lastOp' = Returned("publish_device_birth", sent,
                                      IF sent THEN Message("DBIRTH", d, payload_data) ELSE NoMsg,
                                      d, b)
                /\ UNCHANGED <<ext, host, hostOp, cmd, impl, config, mqtt>>

publish_device_birth == PublishDeviceBirth(DeviceBuilders, BOOLEAN)

\* --------------------------------------------------- publish_device_data()
\* Faulty variant of DeviceSeqNum: the device shares the node's counter.
NodeSeqNum(n, d) == n.seq_num

\* The counter publish_device_data advances: the device's own.
DeviceSeqNum(n, d) == n.device_states[d].seq_num

PublishDeviceData(builders, sends, counting) ==
    \E d \in Devices :
        Alive /\
        IF \/ ~node.is_connected
           \/ ~node.device_states[d].present
           \/ ~node.device_states[d].is_online
        THEN Rejected("publish_device_data", d)
        ELSE \E b \in builders, send_ok \in sends :
             LET s == NextSeq(DeviceSeqNum(node, d))
                 payload_data == build(DataPayload(b, s))
                 sent == publish_message(node, mqtt, send_ok)
             IN /\ node' = [node EXCEPT !.device_states[d].seq_num = s]
                /\ obs' = (IF counting /\ sent THEN [obs EXCEPT !.ddata[d] = @ + 1] ELSE obs)
                /\ lastOp' = Returned("publish_device_data", sent,
                                      IF sent THEN Message("DDATA", d, payload_data) ELSE NoMsg,
                                      d, b)
                /\ UNCHANGED <<ext, host, hostOp, cmd, impl, config, mqtt>>

publish_device_data ==
    /\ \A d \in Devices : node.device_states[d].seq_num < MaxSeq
    /\ PublishDeviceData(DataBuilders, BOOLEAN, FALSE)

\* -------------------------------------------------- publish_device_death()
publish_device_death ==
    \E d \in Devices :
        Alive /\
        IF ~node.is_connected \/ ~node.device_states[d].present
        THEN Rejected("publish_device_death", d)
        ELSE \E send_ok \in BOOLEAN :
             LET payload_data == build(PayloadBuilder)
                 sent == publish_message(node, mqtt, send_ok)
             IN /\ node' = (IF sent THEN [node EXCEPT !.device_states[d].is_online = FALSE]
                            ELSE node)
                /\ obs' = (IF sent
                           THEN [obs EXCEPT !.dbirth_in_session[d] = FALSE]
                           ELSE obs)
                /\ lastOp' = Returned("publish_device_death", sent,
                                      IF sent THEN Message("DDEATH", d, payload_data) ELSE NoMsg,
                                      d, PayloadBuilder)
                /\ UNCHANGED <<ext, host, hostOp, cmd, impl, config, mqtt>>

\* ------------------------- publish_node_command(), publish_device_command()
\* Commands an edge node sends to another edge node of its group.
CommandBuilders == {add_metric(PayloadBuilder, "Node Control/Rebirth", 1)}

PublishCommand(op, type, dev) ==
    /\ Alive
    /\ IF ~node.is_connected
       THEN Rejected(op, dev)
       ELSE \E b \in CommandBuilders, send_ok \in BOOLEAN :
              LET sent == publish_message(node, mqtt, send_ok)
              IN /\ lastOp' = Returned(op, sent,
                                       IF sent THEN Message(type, dev, build(b)) ELSE NoMsg,
                                       dev, b)
                 /\ UNCHANGED <<ext, host, hostOp, cmd, impl, config, node, mqtt, obs>>

publish_node_command == PublishCommand("publish_node_command", "NCMD", "")

publish_device_command ==
    \E d \in Devices : PublishCommand("publish_device_command", "DCMD", d)

\* ------------------------------------------------------------ the transport
\* The Last Will as the broker publishes it when a connection is lost.
WillMessage(will) ==
    IF will.armed
    THEN [type |-> "NDEATH", device |-> "", payload |-> will.payload,
          retained |-> will.retained]
    ELSE NoMsg

\* The connection drops and the broker publishes the will armed for it; only
\* EdgeNode registers a connection-lost callback.
link_drop ==
    /\ Alive
    /\ mqtt.link = "up"
    /\ mqtt' = [mqtt EXCEPT !.link = "down", !.will = NoWill,
                            !.subscribed = FALSE,
                            !.lost_pending = (impl = "EdgeNode")]
    /\ lastOp' = Returned("link_drop", TRUE, WillMessage(mqtt.will), "", PayloadBuilder)
    /\ UNCHANGED <<ext, host, hostOp, cmd, impl, config, node, obs>>

on_connection_lost ==
    /\ Alive
    /\ mqtt.lost_pending
    /\ node' = [node EXCEPT !.is_connected = FALSE]
    /\ mqtt' = [mqtt EXCEPT !.lost_pending = FALSE]
    /\ obs' = [obs EXCEPT !.lost = TRUE]
    /\ lastOp' = Returned("on_connection_lost", TRUE, NoMsg, "", PayloadBuilder)
    /\ UNCHANGED <<ext, host, hostOp, cmd, impl, config>>

\* ----------------------------------------------------------- the destructor
\* ~EdgeNode / ~Publisher: a session with a client whose flag is set is
\* disconnected with disconnect(); then the client handle is destroyed.
destructor ==
    /\ Alive
    /\ \E o \in DisconnectOutcomes :
         LET connected == node.client /\ node.is_connected
             r == IF connected THEN disconnect_call(node, mqtt, o)
                  ELSE [node |-> node, mqtt |-> mqtt, ok |-> FALSE]
         IN /\ node' = [r.node EXCEPT !.client = FALSE]
            /\ mqtt' = NoClient
            /\ lastOp' = Returned("destructor", TRUE,
                                  IF connected THEN DisconnectMsg(node) ELSE NoMsg,
                                  "", PayloadBuilder)
            /\ UNCHANGED <<ext, host, hostOp, cmd, impl, config, obs>>

Next ==
    \/ connect
    \/ disconnect
    \/ publish_birth
    \/ publish_data
    \/ publish_death
    \/ rebirth
    \/ publish_device_birth
    \/ publish_device_data
    \/ publish_device_death
    \/ link_drop
    \/ on_connection_lost
    \/ destructor

Spec == Init /\ [][Next]_vars

\* ------------------------------------------------- long runs without failures
\* Sessions in which every call succeeds and no payload has a caller-set seq
\* on data: connect, births, and data counted up to MaxData per NBIRTH.
session_connect == Connect({"connected"})

node_birth == PublishBirth(BirthBuilders(node.bd_seq_num), {TRUE})

node_data ==
    /\ obs.ndata < MaxData
    /\ PublishData(AutoSeqBuilders, {TRUE}, TRUE)

device_birth == PublishDeviceBirth(DeviceBuilders, {TRUE})

device_data ==
    /\ \A d \in Devices : obs.ddata[d] < MaxSeq
    /\ PublishDeviceData(AutoSeqBuilders, {TRUE}, TRUE)

NextWrap ==
    \/ session_connect
    \/ node_birth
    \/ node_data
    \/ device_birth
    \/ device_data

SpecWrap == Init /\ [][NextWrap]_vars

\* ------------------------------------------------------- HostApplication
\* The session's own identity (Config::group_id, Config::edge_node_id), and
\* the topic its connect() subscribes to.
GroupId == "Energy"
EdgeNodeId == "Gateway01"
NcmdTopic == to_string(Topic(GroupId, "NCMD", EdgeNodeId, ""))

HostIds == {"SCADA01", "HMI02"}
QosLevels == 0..2
Timestamps == {0, 7, 1700000000}
CommandTargets == {EdgeNodeId, "Gateway02"}
HostCommandBuilders ==
    {add_metric(PayloadBuilder, "Node Control/Rebirth", 1),
     add_metric(PayloadBuilder, "Node Control/Scan Rate", 500)}

\* std::format("{}", n) of an unsigned integer: its decimal digits.
Digit(d) ==
    CASE d = 0 -> "0" [] d = 1 -> "1" [] d = 2 -> "2" [] d = 3 -> "3" [] d = 4 -> "4"
      [] d = 5 -> "5" [] d = 6 -> "6" [] d = 7 -> "7" [] d = 8 -> "8" [] d = 9 -> "9"

RECURSIVE FormatUint(_)
FormatUint(n) == IF n < 10 THEN Digit(n) ELSE FormatUint(n \div 10) \o Digit(n % 10)

HostConnectOutcomes == {"create_failed", "connect_failed", "connected"}

HostApplication_connect ==
    /\ \E o \in HostConnectOutcomes :
         /\ host' = (IF o = "create_failed" THEN host
                     ELSE IF o = "connect_failed"
                          THEN [host EXCEPT !.client = TRUE, !.link = "down"]
                          ELSE [host EXCEPT !.client = TRUE, !.link = "up",
                                            !.is_connected = TRUE])
         /\ hostOp' = HostReturned("connect", o = "connected", NoHostMsg)
    /\ UNCHANGED <<ext, impl, config, node, mqtt, lastOp, obs, cmd>>

HostApplication_disconnect ==
    /\ \E o \in DisconnectOutcomes :
         LET accepted == host.client /\ host.link = "up"
         IN /\ host' = (IF accepted
                        THEN [host EXCEPT !.is_connected = FALSE, !.link = "down"]
                        ELSE host)
            /\ hostOp' = HostReturned("disconnect", accepted, NoHostMsg)
    /\ UNCHANGED <<ext, impl, config, node, mqtt, lastOp, obs, cmd>>

\* The host's connection drops; HostApplication registers no callback for it.
host_link_drop ==
    /\ host.link = "up"
    /\ host' = [host EXCEPT !.link = "down"]
    /\ hostOp' = HostReturned("link_drop", TRUE, NoHostMsg)
    /\ UNCHANGED <<ext, impl, config, node, mqtt, lastOp, obs, cmd>>

\* publish_raw_message / publish_command_message: the result, and the message
\* handed to the transport (NoHostMsg when none was).
HostSend(h, msg, send_ok) ==
    IF ~h.client \/ ~h.is_connected
    THEN HostReturned("", FALSE, NoHostMsg)
    ELSE LET sent == h.link = "up" /\ send_ok
         IN HostReturned("", sent, IF sent THEN msg ELSE NoHostMsg)

publish_raw_message(h, topic, payload_data, qos, retain, send_ok) ==
    HostSend(h, [topic |-> topic, payload |-> payload_data, qos |-> qos,
                 retained |-> retain], send_ok)

\* Faulty variant of publish_command_message: commands are published retained.
publish_command_message_retained(h, topic, payload_data, send_ok) ==
    HostSend(h, [topic |-> topic, payload |-> payload_data, qos |-> h.config.qos,
                 retained |-> TRUE], send_ok)

publish_command_message(h, topic, payload_data, send_ok) ==
    HostSend(h, [topic |-> topic, payload |-> payload_data, qos |-> h.config.qos,
                 retained |-> FALSE], send_ok)

HostRejected(op) ==
    /\ hostOp' = HostReturned(op, FALSE, NoHostMsg)
    /\ UNCHANGED <<ext, impl, config, node, mqtt, lastOp, obs, host, cmd>>

HostApplication_publish_state_birth ==
    IF ~host.is_connected
    THEN HostRejected("publish_state_birth")
    ELSE \E timestamp \in Timestamps, send_ok \in BOOLEAN :
           LET json_payload == "{\"online\":true,\"timestamp\":" \o FormatUint(timestamp) \o "}"
               topic == <<"STATE", host.config.host_id>>
               r == publish_raw_message(host, topic, json_payload, host.config.qos,
                                        TRUE, send_ok)
           IN /\ hostOp' = [r EXCEPT !.op = "publish_state_birth"]
              /\ UNCHANGED <<ext, impl, config, node, mqtt, lastOp, obs, host, cmd>>

HostApplication_publish_state_death ==
    IF ~host.is_connected
    THEN HostRejected("publish_state_death")
    ELSE \E timestamp \in Timestamps, send_ok \in BOOLEAN :
           LET json_payload == "{\"online\":false,\"timestamp\":" \o FormatUint(timestamp) \o "}"
               topic == <<"STATE", host.config.host_id>>
               r == publish_raw_message(host, topic, json_payload, host.config.qos,
                                        TRUE, send_ok)
           IN /\ hostOp' = [r EXCEPT !.op = "publish_state_death"]
              /\ UNCHANGED <<ext, impl, config, node, mqtt, lastOp, obs, host, cmd>>

\* The broker queues a published message for the session when it matches the
\* subscription the session's connection holds.
Route(c, m, msg) ==
    IF msg # NoHostMsg /\ m.link = "up" /\ m.subscribed /\ msg.topic = NcmdTopic
    THEN [c EXCEPT !.broker = @ \cup {[topic |-> msg.topic, payload |-> msg.payload]}]
    ELSE c

HostPublishCommand(op, type, device_ids) ==
    IF ~host.is_connected
    THEN HostRejected(op)
    ELSE \E target \in CommandTargets, device_id \in device_ids,
            b \in HostCommandBuilders, send_ok \in BOOLEAN :
           LET topic == Topic(GroupId, type, target, device_id)
               r == publish_command_message(host, to_string(topic), build(b), send_ok)
           IN /\ hostOp' = [r EXCEPT !.op = op]
              /\ cmd' = Route(cmd, mqtt, r.msg)
              /\ UNCHANGED <<ext, impl, config, node, mqtt, lastOp, obs, host>>

HostApplication_publish_node_command ==
    HostPublishCommand("publish_node_command", "NCMD", {""})

HostApplication_publish_device_command ==
    HostPublishCommand("publish_device_command", "DCMD", Devices)

\* ------------------------------------------------------ on_message_arrived()
\* The client library's receive thread reads a message the broker had queued
\* for the session's connection and, as part of reading it, calls
\* on_message_arrived with it: receipt and the call are one step.
\* Faulty variant of CommandCallbackRuns: the callback is run for DCMD topics.
CommandCallbackRunsForDcmd(topic) ==
    topic.message_type = "DCMD" /\ config.command_callback

\* The condition under which on_message_arrived hands a message to the
\* command callback (its payload then has to parse).
CommandCallbackRuns(topic) ==
    topic.message_type = "NCMD" /\ config.command_callback

on_message_arrived ==
    /\ Alive
    /\ mqtt.link = "up"
    /\ \E message \in cmd.broker :
         LET topic == parse(message.topic)
             handled == IF topic = ParseError THEN FALSE
                        ELSE CommandCallbackRuns(topic)
         IN cmd' = [broker |-> cmd.broker \ {message},
                    delivered |-> cmd.delivered \cup {message},
                    invoked |-> cmd.invoked \cup
                                (IF handled
                                 THEN {[topic |-> topic,
                                        payload |-> ParseFromArray(message.payload)]}
                                 ELSE {})]
    /\ UNCHANGED <<ext, impl, config, node, mqtt, lastOp, obs, host, hostOp>>

\* The broker drops what it had queued for a connection that has ended.
broker_discard ==
    /\ mqtt.link # "up"
    /\ cmd.broker # {}
    /\ cmd' = [cmd EXCEPT !.broker = {}]
    /\ UNCHANGED <<ext, impl, config, node, mqtt, lastOp, obs, host, hostOp>>

\* ------------------------------------------------ the specifications with a host
\* A HostApplication alone (no session object), under any Config.
InitHost ==
    /\ impl = "HostApplication"
    /\ config = [command_callback |-> FALSE]
    /\ node = PublisherFields
    /\ mqtt = NoClient
    /\ lastOp = [op |-> "constructed", ok |-> TRUE, msg |-> NoMsg, device |-> "",
                 caller_seq |-> NoSeq]
    /\ obs = NoObs
    /\ host \in {HostApplication(HostConfig(h, q)) : h \in HostIds, q \in QosLevels}
    /\ hostOp = HostReturned("constructed", TRUE, NoHostMsg)
    /\ cmd = NoCmd
    /\ ExtIdle

NextHost ==
    \/ HostApplication_connect
    \/ HostApplication_disconnect
    \/ host_link_drop
    \/ HostApplication_publish_state_birth
    \/ HostApplication_publish_state_death
    \/ HostApplication_publish_node_command
    \/ HostApplication_publish_device_command

SpecHost == InitHost /\ [][NextHost]_vars

\* An object of any of the three classes, driven alone through everything it
\* publishes: the objects share no state, so each run is of one class. The
\* sessions' connects succeed and their births and data go out (a call that
\* fails publishes nothing).
InitPublish == Init \/ InitHost

IsSession == impl \in {"EdgeNode", "Publisher"}
IsHost == impl = "HostApplication"

NextPublish ==
    \/ IsSession /\ session_connect
    \/ IsSession /\ disconnect
    \/ IsSession /\ node_birth
    \/ IsSession /\ node.seq_num < MaxSeq /\ PublishData(AutoSeqBuilders, {TRUE}, FALSE)
    \/ IsSession /\ publish_death
    \/ IsSession /\ rebirth
    \/ IsSession /\ device_birth
    \/ IsSession /\ (\A d \in Devices : node.device_states[d].seq_num < MaxSeq)
                 /\ PublishDeviceData(AutoSeqBuilders, {TRUE}, FALSE)
    \/ IsSession /\ publish_device_death
    \/ IsSession /\ publish_node_command
    \/ IsSession /\ publish_device_command
    \/ IsSession /\ link_drop
    \/ IsSession /\ on_connection_lost
    \/ IsHost /\ HostApplication_connect
    \/ IsHost /\ HostApplication_disconnect
    \/ IsHost /\ host_link_drop
    \/ IsHost /\ HostApplication_publish_state_birth
    \/ IsHost /\ HostApplication_publish_state_death
    \/ IsHost /\ HostApplication_publish_node_command
    \/ IsHost /\ HostApplication_publish_device_command

SpecPublish == InitPublish /\ [][NextPublish]_vars

\* An EdgeNode and a host on one broker: the host connects and sends
\* commands, the session connects, disconnects and loses its link, and the
\* client library's receive thread, which runs for as long as the client
\* exists, keeps handing over what the broker has queued for the connection.
InitCmd == Init /\ impl = "EdgeNode"

NextCmd ==
    \/ connect
    \/ disconnect
    \/ link_drop
    \/ on_connection_lost
    \/ HostApplication_connect
    \/ HostApplication_publish_node_command
    \/ HostApplication_publish_device_command
    \/ on_message_arrived
    \/ broker_discard

SpecCmd == InitCmd /\ [][NextCmd]_vars /\ WF_vars(on_message_arrived)

\* ------------------------------------------------------------- properties
\* What a subscriber reads off a published message.
MsgSeq(msg) ==
    LET p == ParseFromArray(msg.payload) IN IF p.has_seq THEN p.seq ELSE NoSeq

MsgBdSeqs(msg) == BdSeqValues(msg.payload)

Sequenced == {"NBIRTH", "NDATA", "DBIRTH", "DDATA", "DDEATH"}

Published(type) == lastOp.ok /\ lastOp.msg.type = type

\* C1: every successful publish_birth, of either class, sends an NBIRTH whose
\* seq is 0 whatever seq the caller had set and whatever the counter was, and
\* leaves the session's sequence counter at 0.
C1_BirthSeqZero ==
    lastOp.op = "publish_birth" /\ lastOp.ok =>
        /\ lastOp.msg.type = "NBIRTH"
        /\ MsgSeq(lastOp.msg) = 0
        /\ node.seq_num = 0

\* C1 happens: a birth went out for a payload on which the caller had set a seq.
C1_Witness ==
    /\ lastOp.op = "publish_birth" /\ lastOp.ok
    /\ lastOp.caller_seq \in CallerSeqs
    /\ MsgSeq(lastOp.msg) = 0

\* C2 as stated: every NBIRTH EdgeNode publishes (publish_birth with any
\* payload, or rebirth) has exactly one bdSeq metric, equal to the bdSeq of the
\* NDEATH the current connection's connect() armed as Last Will.
C2_BirthBdSeqMatchesWill ==
    impl = "EdgeNode" /\ Published("NBIRTH") =>
        /\ mqtt.will.armed
        /\ Len(MsgBdSeqs(lastOp.msg)) = 1
        /\ MsgBdSeqs(lastOp.msg) = BdSeqValues(mqtt.will.payload)

\* C3: in a run of successful calls, after an NBIRTH the k-th NDATA (no
\* caller-set seq, no rebirth) carries seq k mod 256 and the session counter
\* reads the number of NDATA published mod 256; the 256th NDATA carries 0.
C3_DataSeqCounts ==
    obs.nbirth_in_session =>
        /\ node.seq_num = obs.ndata % SEQ_NUMBER_MAX
        /\ (Published("NDATA") => MsgSeq(lastOp.msg) = obs.ndata % SEQ_NUMBER_MAX)

\* C3 happens: the 256th NDATA after an NBIRTH is out, with seq 0.
C3_Witness ==
    /\ obs.nbirth_in_session
    /\ obs.ndata = SEQ_NUMBER_MAX
    /\ Published("NDATA")
    /\ MsgSeq(lastOp.msg) = 0

\* C4 as stated: node-level and device-level messages share one counter, so
\* of two messages published by consecutive calls the second (not an NBIRTH)
\* carries the first one's seq plus 1, mod 256.
C4_SharedCounter ==
    [][(/\ lastOp.ok /\ lastOp.msg.type \in Sequenced
        /\ lastOp'.ok /\ lastOp'.msg.type \in Sequenced \ {"NBIRTH"}
        /\ lastOp'.caller_seq = NoSeq)
       => MsgSeq(lastOp'.msg) = (MsgSeq(lastOp.msg) + 1) % SEQ_NUMBER_MAX]_vars

\* C4 amended: the counters are per stream. Every NBIRTH and every DBIRTH
\* carries seq 0, an NDATA carries the node's counter, a DDATA for d carries
\* d's own counter (data payloads without a caller-set seq), and a DDEATH
\* carries no seq at all.
C4_PerStreamCounters ==
    /\ (Published("NBIRTH") => MsgSeq(lastOp.msg) = 0)
    /\ (Published("NDATA") /\ lastOp.caller_seq = NoSeq =>
            MsgSeq(lastOp.msg) = node.seq_num)
    /\ (Published("DBIRTH") =>
            /\ MsgSeq(lastOp.msg) = 0
            /\ node.device_states[lastOp.device].seq_num = 0)
    /\ (Published("DDATA") /\ lastOp.caller_seq = NoSeq =>
            MsgSeq(lastOp.msg) = node.device_states[lastOp.device].seq_num)
    /\ (Published("DDEATH") => MsgSeq(lastOp.msg) = NoSeq)

\* C4 happens: a DDATA went out whose seq is not the node's counter.
C4_Witness ==
    /\ Published("DDATA")
    /\ lastOp.caller_seq = NoSeq
    /\ MsgSeq(lastOp.msg) = 1
    /\ node.seq_num = 0
    /\ node.last_birth_payload # <<>>

C6_RebirthAdvancesBdSeq ==
    [][lastOp'.op = "rebirth" /\ lastOp'.ok =>
           /\ node'.bd_seq_num = node.bd_seq_num + 1
           /\ node'.seq_num = 0]_vars

\* C6 happens: a rebirth succeeded on a session whose counter had advanced.
C6_Witness ==
    /\ lastOp.op = "rebirth" /\ lastOp.ok
    /\ node.bd_seq_num = 2
    /\ node.seq_num = 0

\* C7 as stated: with Publisher, a successful rebirth() right after a
\* successful publish_birth() publishes an NBIRTH with seq 0 whose bdSeq is
\* the previous NBIRTH's bdSeq plus 1, the Last Will of the connection it
\* leaves carrying the previous bdSeq.
C7_PublisherRebirthNextBdSeq ==
    [][(/\ impl = "Publisher"
        /\ lastOp.op = "publish_birth" /\ lastOp.ok
        /\ lastOp'.op = "rebirth" /\ lastOp'.ok)
       => /\ MsgSeq(lastOp'.msg) = 0
          /\ MsgBdSeqs(lastOp'.msg) = <<MsgBdSeqs(lastOp.msg)[1] + 1>>
          /\ BdSeqValues(mqtt.will.payload) = <<MsgBdSeqs(lastOp.msg)[1]>>]_vars

\* C8 as stated: publish_device_birth publishes nothing unless an NBIRTH has
\* been published since the most recent successful connect().
C8_DeviceBirthNeedsSessionBirth ==
    lastOp.op = "publish_device_birth" /\ lastOp.ok => obs.nbirth_in_session

\* C9 as stated: publish_device_data(d) publishes nothing unless a DBIRTH for
\* d has been published since the most recent successful connect(), with no
\* DDEATH for d after it.
C9_DeviceDataNeedsSessionBirth ==
    lastOp.op = "publish_device_data" /\ lastOp.ok =>
        obs.dbirth_in_session[lastOp.device]

\* C10 as stated: publish_data publishes nothing unless the session is
\* connected and an NBIRTH has been published since the most recent
\* successful connect().
C10_DataNeedsSessionBirth ==
    lastOp.op = "publish_data" /\ lastOp.ok =>
        node.is_connected /\ obs.nbirth_in_session

\* C11 as stated: every NBIRTH, NDATA, DBIRTH and DDATA payload put on the
\* wire has seq in 0..255, whatever payload the caller built, including one on
\* which the caller set a seq before publish_data or publish_device_data.
C11_SeqInRange ==
    lastOp.ok /\ lastOp.msg.type \in {"NBIRTH", "NDATA", "DBIRTH", "DDATA"} =>
        MsgSeq(lastOp.msg) \in 0..(SEQ_NUMBER_MAX - 1)

\* C12 as stated: whenever connect() returns an error (creation, connect,
\* timeout, or the initial NCMD subscription failing), the connected flag is
\* false afterwards, so every publish call is refused as not connected.
C12_ConnectErrorLeavesDisconnected ==
    lastOp.op = "connect" /\ ~lastOp.ok => ~node.is_connected

\* C13 as stated: whenever disconnect() is called on a Connected session and
\* returns, whatever the transport reported, the session is no longer
\* Connected. (disconnect() never sets the flag, so a flag that is set after
\* the call was set before it.)
C13_DisconnectAlwaysDisconnects ==
    lastOp.op = "disconnect" => ~node.is_connected

C15_DestructorSendsDeath ==
    [][(/\ node.client /\ node.is_connected /\ mqtt.link = "up"
        /\ lastOp'.op = "destructor")
       => lastOp'.msg.type = "NDEATH"]_vars

\* C16: a publish_death() called right after a successful publish_death()
\* puts no second NDEATH on the wire and leaves every member of the session
\* (and the transport) as the first call left it.
C16_PublishDeathIdempotent ==
    lastOp.op = "publish_death" /\ lastOp.ok
        => \A send_ok \in BOOLEAN, o \in DisconnectOutcomes :
               LET second == publish_death_call(node, mqtt, send_ok, o)
               IN /\ second.msg = NoMsg
                  /\ second.node = node
                  /\ second.mqtt = mqtt

\* C16 happens: publish_death() was refused on a session that an earlier
\* NDEATH and disconnect had left Disconnected, its stored bytes intact.
C16_Witness ==
    /\ lastOp.op = "publish_death" /\ ~lastOp.ok /\ lastOp.msg = NoMsg
    /\ node.client /\ ~node.is_connected
    /\ mqtt.link = "down" /\ ~mqtt.will.armed
    /\ node.last_birth_payload # <<>> /\ node.death_payload_data # <<>>

\* C17: bd_seq_num_ is raised only by establishing a session; a connect()
\* that returns an error and leaves the session Disconnected, as it found it,
\* leaves bd_seq_num_ as it was.
C17_FailedConnectKeepsBdSeq ==
    [][(/\ lastOp'.op = "connect" /\ ~lastOp'.ok
        /\ ~node.is_connected /\ ~node'.is_connected)
       => node'.bd_seq_num = node.bd_seq_num]_vars

\* C18: every NBIRTH, NDATA, NDEATH, DBIRTH, DDATA, DDEATH, NCMD and DCMD that
\* an EdgeNode, a Publisher or a HostApplication hands to the broker, and the
\* NDEATH a session registers (and the broker publishes) as its Last Will, is
\* not retained.
SparkplugTypes ==
    {"NBIRTH", "NDATA", "NDEATH", "DBIRTH", "DDATA", "DDEATH", "NCMD", "DCMD"}

HostMsgType(msg) ==
    IF msg.topic = <<>> THEN "none"
    ELSE LET t == parse(msg.topic) IN IF t = ParseError THEN "none" ELSE t.message_type

C18_NothingRetained ==
    /\ (lastOp.msg.type \in SparkplugTypes => ~lastOp.msg.retained)
    /\ (mqtt.will.armed => ~mqtt.will.retained)
    /\ (HostMsgType(hostOp.msg) \in SparkplugTypes => ~hostOp.msg.retained)

\* C18 happens: a host has just published a DCMD (and, for the sessions, see
\* C14_Witness and C3_Witness: a will armed, births and data published).
C18_Witness ==
    /\ hostOp.op = "publish_device_command" /\ hostOp.ok
    /\ HostMsgType(hostOp.msg) = "DCMD"
    /\ Len(hostOp.msg.topic) = 5
    /\ ~hostOp.msg.retained

\* C19: a publish_state_birth(t) / publish_state_death(t) that succeeds has
\* published exactly the bytes {"online":true,"timestamp":t} (birth) or
\* {"online":false,"timestamp":t} (death) on STATE/<host_id>, with QoS 1 and
\* retained.
StateJson(online, t) ==
    "{\"online\":" \o online \o ",\"timestamp\":" \o FormatUint(t) \o "}"

C19_StateMessage ==
    hostOp.op \in {"publish_state_birth", "publish_state_death"} /\ hostOp.ok =>
        /\ hostOp.msg.topic = <<"STATE", host.config.host_id>>
        /\ hostOp.msg.qos = 1
        /\ hostOp.msg.retained
        /\ \E t \in Timestamps :
              hostOp.msg.payload =
                  StateJson(IF hostOp.op = "publish_state_birth" THEN "true" ELSE "false", t)

\* C20: for an EdgeNode configured with a command callback, every NCMD that a
\* host published on the session's NCMD topic and that the broker delivered
\* to the session is eventually handed to the callback, with the topic parsed
\* and a payload equal to the one the host built.
SentCommand(b) == [topic |-> NcmdTopic, payload |-> build(b)]

ReceivedCommand(b) ==
    [topic |-> Topic(GroupId, "NCMD", EdgeNodeId, ""), payload |-> b.payload]

C20_CommandReachesCallback ==
    \A b \in HostCommandBuilders :
        (config.command_callback /\ SentCommand(b) \in cmd.delivered)
            ~> (ReceivedCommand(b) \in cmd.invoked)

\* C20 happens: both commands were sent by a connected host, delivered over a
\* connection made by a successful connect(), and handed to the callback.
C20_Witness ==
    /\ config.command_callback
    /\ hostOp.op = "publish_node_command" /\ hostOp.ok
    /\ \A b \in HostCommandBuilders :
          SentCommand(b) \in cmd.delivered /\ ReceivedCommand(b) \in cmd.invoked

\* ------------------------------------------------ two threads on one session
\* The application threads that call into one session object. What a call
\* does between taking mutex_ and releasing it is one step; a call that
\* releases the mutex and goes on is several steps, and it keeps in its locals
\* what it read under the mutex.
Threads == {1, 2}

\* pc: where the thread is in its call; payload_data: the serialized payload
\* it built; client: the MQTTAsync handle it read from client_ (EdgeNode);
\* order: its place among the publish_data calls that have a seq assigned and
\* have not handed their message to the transport.
Idle == [pc |-> "idle", payload_data |-> <<>>, client |-> NoSeq, order |-> 0]

\* client_.get(): connect() replaces the client, and in EdgeNode each
\* replacement that goes on to connect counts bd_seq_num_ up, so the counter
\* tells the handles apart.
ClientHandle(n) == IF n.client THEN n.bd_seq_num ELSE NoSeq

InCall(t, pc, payload_data, order) ==
    [thr EXCEPT ![t] = [pc |-> pc, payload_data |-> payload_data,
                        client |-> ClientHandle(node), order |-> order]]

Leaves(t) == [thr EXCEPT ![t] = Idle]

\* publish_message(client, ...) outside the mutex, with the handle the thread
\* read earlier. A connect() in between has destroyed that client: the send
\* through the dangling handle may fail or go out on the connection that
\* exists now.
SendOnHandle(t, stale_sends) ==
    /\ publish_message(node, mqtt, TRUE)
    /\ (thr[t].client # ClientHandle(node) => stale_sends)

SomeIdle == \E t \in Threads : thr[t].pc = "idle"

\* connect() holds the mutex from its first line to its last.
thread_connect == SomeIdle /\ node.bd_seq_num < MaxBdSeq /\ session_connect

\* Publisher::publish_birth and Publisher::publish_data hold the mutex across
\* the send.
Publisher_publish_birth ==
    impl = "Publisher" /\ SomeIdle /\ PublishBirth(AutoSeqBuilders, {TRUE})

Publisher_publish_data ==
    /\ impl = "Publisher" /\ SomeIdle /\ node.seq_num <= MaxSeq
    /\ PublishData(AutoSeqBuilders, {TRUE}, FALSE)

\* EdgeNode::publish_birth, first critical section: the payload is stamped
\* and the client handle read.
EdgeNode_publish_birth_prepare(t) ==
    /\ impl = "EdgeNode" /\ thr[t].pc = "idle"
    /\ IF ~node.is_connected
       THEN Rejected("publish_birth", "")
       ELSE \E b \in AutoSeqBuilders :
              /\ thr' = InCall(t, "publish_birth",
                               build(BirthPayload(b, node.bd_seq_num)), 0)
              /\ UNCHANGED <<sub, fn, mutex, host, hostOp, cmd, impl, config, node, mqtt,
                             obs, lastOp>>

\* The send, with the mutex released.
EdgeNode_publish_birth_send(t) ==
    /\ impl = "EdgeNode" /\ thr[t].pc = "publish_birth"
    /\ \E stale_sends \in BOOLEAN :
         LET sent == SendOnHandle(t, stale_sends)
         IN /\ thr' = (IF sent THEN [thr EXCEPT ![t].pc = "publish_birth_sent"]
                       ELSE Leaves(t))
            /\ obs' = (IF sent
                       THEN [obs EXCEPT !.nbirth_in_session = TRUE, !.ndata = 0,
                                        !.stamped = 0]
                       ELSE obs)
            /\ lastOp' = Returned("publish_birth", sent,
                                  IF sent
                                  THEN Message("NBIRTH", "", thr[t].payload_data)
                                  ELSE NoMsg,
                                  "", PayloadBuilder)
            /\ UNCHANGED <<sub, fn, mutex, host, hostOp, cmd, impl, config, node, mqtt>>

\* Second critical section: the birth is stored and the counter reset.
EdgeNode_publish_birth_store(t) ==
    /\ impl = "EdgeNode" /\ thr[t].pc = "publish_birth_sent"
    /\ node' = [node EXCEPT !.last_birth_payload = thr[t].payload_data,
                            !.seq_num = 0]
    /\ thr' = Leaves(t)
    /\ UNCHANGED <<sub, fn, mutex, host, hostOp, cmd, impl, config, mqtt, obs, lastOp>>

Pending(t) == thr[t].pc = "publish_data"

\* The place behind the calls that are waiting to send.
NextOrder == 1 + Cardinality({u \in Threads : Pending(u)})

\* The call of thread t has handed its message over: those behind it move up.
Handed(t) ==
    [u \in Threads |->
        IF u = t THEN Idle
        ELSE IF Pending(u) /\ thr[u].order > thr[t].order
             THEN [thr[u] EXCEPT !.order = @ - 1]
             ELSE thr[u]]

\* EdgeNode::publish_data, the critical section: the counter moves on, the
\* payload is stamped and serialized, the client handle read.
EdgeNode_publish_data_prepare(t) ==
    /\ impl = "EdgeNode" /\ thr[t].pc = "idle"
    /\ node.seq_num <= MaxSeq
    /\ IF ~node.is_connected
       THEN Rejected("publish_data", "")
       ELSE \E b \in AutoSeqBuilders :
              LET s == NextSeq(node.seq_num)
              IN /\ node' = [node EXCEPT !.seq_num = s]
                 /\ thr' = InCall(t, "publish_data", build(DataPayload(b, s)),
                                  NextOrder)
                 /\ obs' = [obs EXCEPT !.stamped = @ + 1]
                 /\ UNCHANGED <<sub, fn, mutex, host, hostOp, cmd, impl, config, mqtt,
                                lastOp>>

\* The send, with the mutex released.
EdgeNode_publish_data_send(t) ==
    /\ impl = "EdgeNode" /\ Pending(t)
    /\ \E stale_sends \in BOOLEAN :
         LET sent == SendOnHandle(t, stale_sends)
         IN /\ thr' = Handed(t)
            /\ lastOp' = Returned("publish_data", sent,
                                  IF sent
                                  THEN Message("NDATA", "", thr[t].payload_data)
                                  ELSE NoMsg,
                                  "", PayloadBuilder)
            /\ UNCHANGED <<sub, fn, mutex, host, hostOp, cmd, impl, config, node, mqtt, obs>>

\* rebirth(), first critical section, of either class: the stored birth is
\* parsed, given the next bdSeq and seq 0, and stored again.
rebirth_prepare(t) ==
    /\ thr[t].pc = "idle"
    /\ node.bd_seq_num < MaxBdSeq
    /\ IF ~node.is_connected \/ node.last_birth_payload = <<>>
       THEN Rejected("rebirth", "")
       ELSE LET payload_data == RebirthPayload(node.last_birth_payload,
                                               RebirthNewBdSeq(node))
            IN /\ node' = [node EXCEPT !.bd_seq_num = RebirthBdSeq(node),
                                       !.last_birth_payload = payload_data]
               /\ thr' = InCall(t, "rebirth_disconnect", payload_data, 0)
               /\ UNCHANGED <<sub, fn, mutex, host, hostOp, cmd, impl, config, mqtt,
                              obs, lastOp>>

\* disconnect(), called with the mutex released; rebirth() returns its error.
rebirth_disconnect(t) ==
    /\ thr[t].pc = "rebirth_disconnect"
    /\ LET r == disconnect_call(node, mqtt, "success")
       IN /\ node' = r.node
          /\ mqtt' = r.mqtt
          /\ thr' = (IF r.ok THEN [thr EXCEPT ![t].pc = "rebirth_connect"]
                     ELSE Leaves(t))
          /\ lastOp' = Returned("rebirth_disconnect", r.ok, DisconnectMsg(node), "",
                                PayloadBuilder)
          /\ UNCHANGED <<sub, fn, mutex, host, hostOp, cmd, impl, config, obs>>

\* connect(), called next: it takes the mutex for itself.
rebirth_connect(t) ==
    /\ thr[t].pc = "rebirth_connect"
    /\ LET r == connect_call(node, mqtt, "connected")
       IN /\ node' = r.node
          /\ mqtt' = r.mqtt
          /\ obs' = NewSession(obs)
          /\ thr' = [thr EXCEPT ![t].pc = IF impl = "EdgeNode" THEN "rebirth_client"
                                         ELSE "rebirth_publish"]
          /\ lastOp' = Returned("rebirth_connect", r.ok, NoMsg, "", PayloadBuilder)
          /\ UNCHANGED <<sub, fn, mutex, host, hostOp, cmd, impl, config>>

\* EdgeNode::rebirth reads client_ under the mutex and releases it.
EdgeNode_rebirth_client(t) ==
    /\ impl = "EdgeNode" /\ thr[t].pc = "rebirth_client"
    /\ thr' = InCall(t, "rebirth_publish", thr[t].payload_data, 0)
    /\ UNCHANGED <<sub, fn, mutex, host, hostOp, cmd, impl, config, node, mqtt, obs, lastOp>>

\* The NBIRTH is sent: by Publisher under the mutex on client_ as it is, by
\* EdgeNode outside it on the handle it read.
rebirth_publish(t) ==
    /\ thr[t].pc = "rebirth_publish"
    /\ \E stale_sends \in BOOLEAN :
         LET sent == IF impl = "EdgeNode" THEN SendOnHandle(t, stale_sends)
                     ELSE stale_sends /\ publish_message(node, mqtt, TRUE)
         IN /\ thr' = (IF sent THEN [thr EXCEPT ![t].pc = "rebirth_sent"]
                       ELSE Leaves(t))
            /\ obs' = (IF sent
                       THEN [obs EXCEPT !.nbirth_in_session = TRUE, !.ndata = 0,
                                        !.stamped = 0]
                       ELSE obs)
            /\ lastOp' = Returned("rebirth", sent,
                                  IF sent
                                  THEN Message("NBIRTH", "", thr[t].payload_data)
                                  ELSE NoMsg,
                                  "", PayloadBuilder)
            /\ UNCHANGED <<sub, fn, mutex, host, hostOp, cmd, impl, config, node, mqtt>>

\* Last critical section: the sequence counter is reset.
rebirth_reset(t) ==
    /\ thr[t].pc = "rebirth_sent"
    /\ node' = [node EXCEPT !.seq_num = 0]
    /\ thr' = Leaves(t)
    /\ UNCHANGED <<sub, fn, mutex, host, hostOp, cmd, impl, config, mqtt, obs, lastOp>>

InitThreads ==
    /\ Constructed
    /\ thr = [t \in Threads |-> Idle]
    /\ sub = NoSubscriber
    /\ fn = NoCall
    /\ mutex = NoOwner

NextThreads ==
    \/ thread_connect
    \/ Publisher_publish_birth
    \/ Publisher_publish_data
    \/ \E t \in Threads : EdgeNode_publish_birth_prepare(t)
    \/ \E t \in Threads : EdgeNode_publish_birth_send(t)
    \/ \E t \in Threads : EdgeNode_publish_birth_store(t)
    \/ \E t \in Threads : EdgeNode_publish_data_prepare(t)
    \/ \E t \in Threads : EdgeNode_publish_data_send(t)
    \/ \E t \in Threads : rebirth_prepare(t)
    \/ \E t \in Threads : rebirth_disconnect(t)
    \/ \E t \in Threads : rebirth_connect(t)
    \/ \E t \in Threads : EdgeNode_rebirth_client(t)
    \/ \E t \in Threads : rebirth_publish(t)
    \/ \E t \in Threads : rebirth_reset(t)

SpecThreads == InitThreads /\ [][NextThreads]_vars

\* ---------------------------------------------------------------- C21..C30
\* C21: with two threads calling into one session (rebirth() beside rebirth(),
\* rebirth() beside connect()), every NBIRTH that rebirth() publishes carries
\* the bdSeq of the Last Will armed on the connection it is sent on.
C21_ConcurrentBirthBdSeqMatchesWill ==
    Published("NBIRTH") /\ lastOp.op = "rebirth" =>
        /\ mqtt.will.armed
        /\ MsgBdSeqs(lastOp.msg) = BdSeqValues(mqtt.will.payload)

\* C28: within one EdgeNode session, with publish_data called from two
\* threads, the NDATA messages reach the transport in the order in which
\* their seq values were assigned: a call hands its message over only when no
\* call that got its seq earlier is still waiting to send.
C28_DataSentInAssignedOrder ==
    [][\A t \in Threads :
          Pending(t) /\ thr'[t].pc = "idle" /\ lastOp'.ok => thr[t].order = 1]_vars

\* C29: while a rebirth() is in progress, between its reconnect and its NBIRTH,
\* no publish_data of another thread puts a message on the new connection:
\* nothing is published on a connection before the NBIRTH of the rebirth()
\* that opened it.
RebirthInProgress ==
    \E t \in Threads : thr[t].pc \in {"rebirth_client", "rebirth_publish"}

C29_NothingBeforeRebirthBirth ==
    RebirthInProgress /\ ~obs.nbirth_in_session => ~Published("NDATA")

\* ------------------------------------------------ the session mutex, by step
\* The steps of every public operation and callback that matter to mutex_:
\*   lock     std::lock_guard / std::unique_lock constructed, or lock.lock()
\*   unlock   the guard's scope ends, or lock.unlock()
\*   wait     a timed wait for the client library (connect, subscribe, disconnect)
\*   send     publish_message -> MQTTAsync_sendMessage
\*   callback config_.command_callback is invoked
Connect_steps == <<"lock", "wait", "unlock">>
Disconnect_steps == <<"lock", "wait", "unlock">>

Program(op) ==
    IF impl = "EdgeNode"
    THEN CASE op = "connect" -> Connect_steps
           [] op = "disconnect" -> Disconnect_steps
           [] op = "publish_birth" -> <<"lock", "unlock", "send", "lock", "unlock">>
           [] op = "publish_data" -> <<"lock", "unlock", "send">>
           [] op = "publish_death" -> <<"lock", "unlock", "send">> \o Disconnect_steps
           [] op = "rebirth" ->
                <<"lock", "unlock">> \o Disconnect_steps \o Connect_steps
                \o <<"lock", "unlock", "send", "lock", "unlock">>
           [] op = "on_connection_lost" -> <<"lock", "unlock">>
    ELSE CASE op = "connect" -> Connect_steps
           [] op = "disconnect" -> Disconnect_steps
           [] op = "publish_birth" -> <<"lock", "send", "unlock">>
           [] op = "publish_data" -> <<"lock", "send", "unlock">>
           [] op = "publish_death" -> <<"lock", "send", "unlock">> \o Disconnect_steps
           [] op = "rebirth" ->
                <<"lock", "unlock">> \o Disconnect_steps \o Connect_steps
                \o <<"lock", "send", "unlock", "lock", "unlock">>
           [] op = "on_connection_lost" -> <<>>

PublicOps ==
    {"connect", "disconnect", "publish_birth", "publish_data", "publish_death",
     "rebirth"}

\* Faulty variant of OnMessageArrived: the callback is invoked under the mutex.
OnMessageArrivedLocked == <<"lock", "callback", "unlock">>

\* on_message_arrived: the topic is parsed, the payload decoded and the
\* callback invoked; mutex_ is not touched.
OnMessageArrived == <<"callback">>

\* An application thread and the client library's thread, which delivers
\* arrived messages and connection losses.
MutexThreads == {"application", "library"}

\* todo: the steps the thread has still to take; in_callback: it is inside
\* the user's command callback.
NotCalling == [todo |-> <<>>, in_callback |-> FALSE]

At(t, step) == thr[t].todo # <<>> /\ Head(thr[t].todo) = step

Advance(t) == [thr EXCEPT ![t].todo = Tail(@)]

\* The application calls a public operation.
call(t) ==
    /\ t = "application" /\ thr[t].todo = <<>>
    /\ \E op \in PublicOps : thr' = [thr EXCEPT ![t].todo = Program(op)]
    /\ UNCHANGED <<sub, fn, mutex, host, hostOp, cmd, impl, config, node, mqtt, obs, lastOp>>

\* The library delivers a message, or reports the connection lost.
deliver(t) ==
    /\ t = "library" /\ thr[t].todo = <<>>
    /\ \/ config.command_callback /\ thr' = [thr EXCEPT ![t].todo = OnMessageArrived]
       \/ thr' = [thr EXCEPT ![t].todo = Program("on_connection_lost")]
    /\ UNCHANGED <<sub, fn, mutex, host, hostOp, cmd, impl, config, node, mqtt, obs, lastOp>>

\* The user's callback runs on the calling thread and calls back into the
\* session.
callback_invoked(t) ==
    /\ At(t, "callback")
    /\ \E op \in PublicOps :
         thr' = [thr EXCEPT ![t] = [todo |-> Program(op) \o <<"return">> \o Tail(@.todo),
                                    in_callback |-> TRUE]]
    /\ UNCHANGED <<sub, fn, mutex, host, hostOp, cmd, impl, config, node, mqtt, obs, lastOp>>

callback_returns(t) ==
    /\ At(t, "return")
    /\ thr' = [thr EXCEPT ![t] = [todo |-> Tail(@.todo), in_callback |-> FALSE]]
    /\ UNCHANGED <<sub, fn, mutex, host, hostOp, cmd, impl, config, node, mqtt, obs, lastOp>>

\* std::mutex::lock: the thread goes on only when nobody holds the mutex.
mutex_lock(t) ==
    /\ At(t, "lock") /\ mutex = NoOwner
    /\ mutex' = t
    /\ thr' = Advance(t)
    /\ UNCHANGED <<sub, fn, host, hostOp, cmd, impl, config, node, mqtt, obs, lastOp>>

mutex_unlock(t) ==
    /\ At(t, "unlock") /\ mutex = t
    /\ mutex' = NoOwner
    /\ thr' = Advance(t)
    /\ UNCHANGED <<sub, fn, host, hostOp, cmd, impl, config, node, mqtt, obs, lastOp>>

\* Faulty variant of proceed: the wait has no timeout and ends only when the
\* transport calls a completion callback, which it need not do.
proceed_on_completion(t) ==
    /\ At(t, "send")
    /\ thr' = Advance(t)
    /\ UNCHANGED <<sub, fn, mutex, host, hostOp, cmd, impl, config, node, mqtt, obs, lastOp>>

\* A timed wait (future.wait_for) or a send: it ends whoever holds the mutex,
\* the wait at the latest when its timeout elapses.
proceed(t) ==
    /\ At(t, "wait") \/ At(t, "send")
    /\ thr' = Advance(t)
    /\ UNCHANGED <<sub, fn, mutex, host, hostOp, cmd, impl, config, node, mqtt, obs, lastOp>>

InitMutex ==
    /\ Constructed
    /\ thr = [t \in MutexThreads |-> NotCalling]
    /\ sub = NoSubscriber
    /\ fn = NoCall
    /\ mutex = NoOwner

NextMutex ==
    \/ \E t \in MutexThreads : call(t)
    \/ \E t \in MutexThreads : deliver(t)
    \/ \E t \in MutexThreads : callback_invoked(t)
    \/ \E t \in MutexThreads : callback_returns(t)
    \/ \E t \in MutexThreads : mutex_lock(t)
    \/ \E t \in MutexThreads : mutex_unlock(t)
    \/ \E t \in MutexThreads : proceed(t)

SpecMutex == InitMutex /\ [][NextMutex]_vars

Slash == "/"

RECURSIVE Join(_)
\* std::format("{}/{}/...", ...): the arguments with '/' between them.
Join(strs) ==
    IF Len(strs) = 0 THEN <<>>
    ELSE IF Len(strs) = 1 THEN strs[1]
    ELSE strs[1] \o <<Slash>> \o Join(Tail(strs))

RECURSIVE SplitRest(_)
\* What std::views::split('/') yields from a position on: the run up to the
\* next '/', then the rest; a '/' at the end leaves an empty last element.
SplitRest(str) ==
    LET at == {i \in 1..Len(str) : str[i] = Slash}
    IN IF at = {} THEN <<str>>
       ELSE LET i == CHOOSE k \in at : \A j \in at : k <= j
            IN <<SubSeq(str, 1, i - 1)>> \o SplitRest(SubSeq(str, i + 1, Len(str)))

\* topic_str | std::views::split('/'): the empty string has no element.
Split(topic_str) == IF topic_str = <<>> THEN <<>> ELSE SplitRest(topic_str)

message_type_to_string(type) == <<type>>

\* parse_message_type: the MessageType, or no value for an unknown name.
parse_message_type(str) ==
    IF Len(str) = 1 /\ str[1] \in MessageType THEN str[1] ELSE "unknown"

\* Topic::to_string.
Topic_to_string(t) ==
    IF t.message_type = "STATE"
    THEN Join(<<<<"STATE">>, t.edge_node_id>>)
    ELSE LET base == Join(<<<<NAMESPACE>>, t.group_id,
                            message_type_to_string(t.message_type), t.edge_node_id>>)
         IN IF t.device_id # <<>> THEN Join(<<base, t.device_id>>) ELSE base

\* Faulty variant of Topic_parse: the fifth element is never read.
Topic_parse_without_device(topic_str) ==
    LET elements == Split(topic_str)
    IN IF Len(elements) < 2 THEN ParseError
       ELSE IF elements[1] = <<"STATE">> THEN Topic(<<>>, "STATE", elements[2], <<>>)
       ELSE IF Len(elements) < 4 \/ elements[1] # <<NAMESPACE>> THEN ParseError
       ELSE IF parse_message_type(elements[3]) = "unknown" THEN ParseError
       ELSE Topic(elements[2], parse_message_type(elements[3]), elements[4], <<>>)

\* Topic::parse.
Topic_parse(topic_str) ==
    LET elements == Split(topic_str)
    IN IF Len(elements) < 2 THEN ParseError
       ELSE IF elements[1] = <<"STATE">> THEN Topic(<<>>, "STATE", elements[2], <<>>)
       ELSE IF Len(elements) < 4 \/ elements[1] # <<NAMESPACE>> THEN ParseError
       ELSE IF parse_message_type(elements[3]) = "unknown" THEN ParseError
       ELSE Topic(elements[2], parse_message_type(elements[3]), elements[4],
                  IF Len(elements) > 4 THEN elements[5] ELSE <<>>)

\* The ids a caller can put into a Topic: empty, plain, holding a '/'.
TopicIds == {<<>>, <<"Energy">>, <<"Gateway01">>, <<"a", Slash, "b">>, <<Slash>>}

Topics ==
    {Topic(g, type, e, d) : g \in TopicIds, type \in MessageType, e \in TopicIds,
                            d \in TopicIds}

\* The strings a broker can hand over as a topic: up to MaxSegments elements.
MaxSegments == 5
Segments == {<<>>, <<"STATE">>, <<NAMESPACE>>, <<"NDATA">>, <<"NOPE">>, <<"Energy">>}

RECURSIVE SegmentLists(_)
SegmentLists(n) ==
    IF n = 0 THEN {<<>>}
    ELSE LET shorter == SegmentLists(n - 1)
         IN shorter \cup {Append(l, s) : l \in {k \in shorter : Len(k) = n - 1},
                                         s \in Segments}

TopicStrings == {Join(l) : l \in SegmentLists(MaxSegments)}

\* No session and no host take part: the codec is called on its own.
\* A Topic or a string is given; to_string renders the Topic; parse reads
\* the rendered or the given string.
NoSession ==
    /\ impl = "none"
    /\ config = [command_callback |-> FALSE]
    /\ node = PublisherFields
    /\ mqtt = NoClient
    /\ lastOp = [op |-> "constructed", ok |-> TRUE, msg |-> NoMsg, device |-> "",
                 caller_seq |-> NoSeq]
    /\ obs = NoObs
    /\ host = HostApplication(HostConfig("SCADA01", 1))
    /\ hostOp = HostReturned("constructed", TRUE, NoHostMsg)
    /\ cmd = NoCmd
    /\ mutex = NoOwner

InitTopic ==
    /\ NoSession
    /\ thr = NoThreads
    /\ sub = NoSubscriber
    /\ \/ \E t \in Topics : fn = [f |-> "Topic", t |-> t]
       \/ \E s \in TopicStrings : fn = [f |-> "topic_str", topic_str |-> s]

to_string_called ==
    /\ fn.f = "Topic"
    /\ fn' = [f |-> "to_string", t |-> fn.t, topic_str |-> Topic_to_string(fn.t)]
    /\ UNCHANGED <<thr, sub, mutex, host, hostOp, cmd, impl, config, node, mqtt, obs,
                   lastOp>>

parse_called ==
    /\ fn.f \in {"to_string", "topic_str"}
    /\ fn' = [f |-> "parse", rendered |-> fn.f = "to_string",
              t |-> IF fn.f = "to_string" THEN fn.t ELSE ParseError,
              topic_str |-> fn.topic_str, result |-> Topic_parse(fn.topic_str)]
    /\ UNCHANGED <<thr, sub, mutex, host, hostOp, cmd, impl, config, node, mqtt, obs,
                   lastOp>>

NextTopic == to_string_called \/ parse_called

SpecTopic == InitTopic /\ [][NextTopic]_vars

NoSlash(str) == \A i \in 1..Len(str) : str[i] # Slash

\* Well-formed as far as stated: the eight types with non-empty group and
\* edge-node ids that hold no '/' and any device id or none; STATE with empty
\* group and device.
WellFormedAsStated(t) ==
    IF t.message_type = "STATE"
    THEN t.group_id = <<>> /\ t.device_id = <<>>
    ELSE /\ t.group_id # <<>> /\ NoSlash(t.group_id)
         /\ t.edge_node_id # <<>> /\ NoSlash(t.edge_node_id)

\* Well-formed: moreover no id at all holds a '/'.
WellFormed(t) ==
    WellFormedAsStated(t) /\ NoSlash(t.device_id) /\ NoSlash(t.edge_node_id)

RoundTrip == fn.f = "parse" /\ fn.rendered

\* C25 as stated: for every Topic that is well-formed as far as stated,
\* parse(to_string(t)) succeeds and equals t field by field.
C25_RoundTripAsStated ==
    RoundTrip /\ WellFormedAsStated(fn.t) => fn.result = fn.t

\* C25: for every well-formed Topic t none of whose ids (group, edge node,
\* device, host id of STATE) holds a '/', parse(to_string(t)) succeeds and
\* equals t field by field.
C25_RoundTrip ==
    RoundTrip /\ WellFormed(fn.t) => fn.result = fn.t

\* A device topic and a STATE topic have made the round trip.
C25_Witness ==
    /\ RoundTrip /\ WellFormed(fn.t)
    /\ fn.t.message_type = "DDATA" /\ fn.t.device_id # <<>>
    /\ Len(Split(fn.topic_str)) = 5

\* What the codec is to accept: 'STATE/<id>' with exactly two elements, or at
\* least four elements of which the first is the namespace and the third a
\* known message type.
Acceptable(topic_str) ==
    LET elements == Split(topic_str)
    IN \/ Len(elements) = 2 /\ elements[1] = <<"STATE">>
       \/ /\ Len(elements) >= 4
          /\ elements[1] = <<NAMESPACE>>
          /\ parse_message_type(elements[3]) # "unknown"

\* C26: Topic::parse returns an error for every string that is not
\* acceptable: STATE with more than two elements, a wrong namespace, fewer
\* than four elements, an unknown message type.
C26_RejectsMalformed ==
    fn.f = "parse" /\ ~Acceptable(fn.topic_str) => fn.result = ParseError

\* ----------------------------------------------------------------- Subscriber
\* A map (std::unordered_map) is a function on the keys it holds; <<>> is the
\* empty map.
Find(map, key) == key \in DOMAIN map

\* map[key]: the entry, default-constructed first when the key is absent.
Subscript(map, key, default) == IF Find(map, key) THEN map ELSE map @@ (key :> default)

Subscriber_DeviceState ==
    [is_online |-> FALSE, last_seq |-> 255, birth_received |-> FALSE, alias_map |-> <<>>]

NodeState ==
    [is_online |-> FALSE, last_seq |-> 255, bd_seq |-> 0, birth_timestamp |-> 0,
     birth_received |-> FALSE, devices |-> <<>>, alias_map |-> <<>>]

\* No message has arrived yet.
NoArrival ==
    [topic_str |-> <<>>, topic |-> ParseError, decoded |-> FALSE, valid |-> FALSE,
     callback |-> 0, command_callback |-> 0, registered |-> FALSE,
     payload |-> <<>>, warning |-> "none", before |-> <<>>]

\* The members the constructor leaves: config_.validate_sequence as given,
\* no command callback, no node state.
Subscriber(validate_sequence) ==
    [validate_sequence |-> validate_sequence, command_callback_ |-> FALSE,
     node_states_ |-> <<>>, arrived |-> NoArrival]

\* A decoded metric: name ("" when it has none), alias, long_value.
Metric(name, has_alias, alias, long_value) ==
    [name |-> name, has_alias |-> has_alias, alias |-> alias, long_value |-> long_value]

\* A decoded payload.
Decoded(timestamp, with_seq, seq, metrics) ==
    [timestamp |-> timestamp, has_seq |-> with_seq, seq |-> seq, metrics |-> metrics]

\* The first metric named bdSeq, as the loops of validate_message find it.
FirstBdSeq(payload) ==
    LET idx == {i \in 1..Len(payload.metrics) : payload.metrics[i].name = "bdSeq"}
    IN IF idx = {} THEN [has_bdseq |-> FALSE, bd_seq |-> 0]
       ELSE [has_bdseq |-> TRUE,
             bd_seq |-> payload.metrics[CHOOSE i \in idx : \A j \in idx : i <= j].long_value]

Validated(states, ok) == [node_states_ |-> states, valid |-> ok]

\* Faulty variant of NDeath: an NDEATH whose bdSeq does not match the birth
\* is ignored.
NDeathIfMatching(state, payload) ==
    IF state.birth_received /\ FirstBdSeq(payload).bd_seq # state.bd_seq
    THEN state ELSE [state EXCEPT !.is_online = FALSE]

\* Faulty variant of ValidationEnabled: the configuration is not consulted.
ValidationAlways(s) == TRUE

\* config_.validate_sequence
ValidationEnabled(s) == s.validate_sequence

\* Faulty variant of NodeBirthReceived: a DBIRTH is taken without an NBIRTH.
NodeBirthNotRequired(state) == TRUE

\* The DBIRTH case requires state.birth_received.
NodeBirthReceived(state) == state.birth_received

\* Faulty variant of NDeath: the death also forgets the birth.
NDeathForgetsBirth(state, payload) ==
    [state EXCEPT !.is_online = FALSE, !.birth_received = FALSE]

\* The NDEATH case: the mismatch only warns; state.is_online = false.
NDeath(state, payload) == [state EXCEPT !.is_online = FALSE]

\* Subscriber::validate_message on the node-state map: the map it leaves and
\* what it returns.
validate_message(s, topic, payload) ==
    IF ~ValidationEnabled(s) THEN Validated(s.node_states_, TRUE)
    ELSE
    LET node_id == topic.edge_node_id
        states == Subscript(s.node_states_, node_id, NodeState)
        state == states[node_id]
        type == topic.message_type
        With(st) == [states EXCEPT ![node_id] = st]
    IN CASE type = "NBIRTH" ->
              IF payload.has_seq /\ payload.seq # 0 THEN Validated(states, FALSE)
              ELSE IF ~FirstBdSeq(payload).has_bdseq THEN Validated(states, FALSE)
              ELSE Validated(With([state EXCEPT !.bd_seq = FirstBdSeq(payload).bd_seq,
                                                !.last_seq = 0,
                                                !.is_online = TRUE,
                                                !.birth_received = TRUE,
                                                !.birth_timestamp = payload.timestamp]),
                             TRUE)
         [] type = "NDEATH" -> Validated(With(NDeath(state, payload)), TRUE)
         [] type = "NDATA" ->
              IF ~state.birth_received THEN Validated(states, FALSE)
              ELSE IF payload.has_seq
                   THEN Validated(With([state EXCEPT !.last_seq = payload.seq]), TRUE)
                   ELSE Validated(states, TRUE)
         [] type = "DBIRTH" ->
              IF ~NodeBirthReceived(state) THEN Validated(states, FALSE)
              ELSE LET devices == Subscript(state.devices, topic.device_id,
                                            Subscriber_DeviceState)
                   IN Validated(With([state EXCEPT !.devices =
                          [devices EXCEPT ![topic.device_id].is_online = TRUE,
                                          ![topic.device_id].birth_received = TRUE,
                                          ![topic.device_id].last_seq = 0]]),
                        TRUE)
         [] type = "DDATA" ->
              IF ~state.birth_received THEN Validated(states, FALSE)
              ELSE IF ~Find(state.devices, topic.device_id)
                      \/ ~state.devices[topic.device_id].birth_received
                   THEN Validated(states, FALSE)
              ELSE IF payload.has_seq
                   THEN Validated(With([state EXCEPT
                            !.devices[topic.device_id].last_seq = payload.seq]), TRUE)
                   ELSE Validated(states, TRUE)
         [] type = "DDEATH" ->
              IF Find(state.devices, topic.device_id)
              THEN Validated(With([state EXCEPT
                       !.devices[topic.device_id].is_online = FALSE]), TRUE)
              ELSE Validated(states, TRUE)
         [] OTHER -> Validated(states, TRUE)

\* Faulty variant of expected_seq: the successor is not reduced modulo 256.
expected_seq_without_wrap(last_seq) == last_seq + 1

\* uint64_t expected_seq = (last_seq + 1) % SEQ_NUMBER_MAX
expected_seq(last_seq) == (last_seq + 1) % SEQ_NUMBER_MAX

\* What validate_message writes to std::cerr for the message: at most one
\* warning, named by what it reports.
Warned(s, topic, payload) ==
    IF ~s.validate_sequence THEN "none"
    ELSE
    LET node_id == topic.edge_node_id
        state == Subscript(s.node_states_, node_id, NodeState)[node_id]
        type == topic.message_type
        Gap(last_seq) ==
            IF payload.has_seq /\ payload.seq # expected_seq(last_seq)
            THEN "sequence gap" ELSE "none"
    IN CASE type = "NBIRTH" ->
              IF payload.has_seq /\ payload.seq # 0 THEN "invalid seq"
              ELSE IF ~FirstBdSeq(payload).has_bdseq THEN "missing bdSeq"
              ELSE "none"
         [] type = "NDEATH" ->
              IF state.birth_received /\ FirstBdSeq(payload).bd_seq # state.bd_seq
              THEN "bdSeq mismatch" ELSE "none"
         [] type = "NDATA" ->
              IF ~state.birth_received THEN "before NBIRTH" ELSE Gap(state.last_seq)
         [] type = "DBIRTH" ->
              IF ~state.birth_received THEN "before NBIRTH"
              ELSE IF payload.has_seq /\ payload.seq # 0 THEN "invalid seq"
              ELSE "none"
         [] type = "DDATA" ->
              IF ~state.birth_received THEN "before NBIRTH"
              ELSE IF ~Find(state.devices, topic.device_id)
                      \/ ~state.devices[topic.device_id].birth_received
                   THEN "before DBIRTH"
              ELSE Gap(state.devices[topic.device_id].last_seq)
         [] OTHER -> "none"

\* topic_str.starts_with("STATE/")
StartsWithState(topic_str) ==
    Len(topic_str) >= 2 /\ topic_str[1] = "STATE" /\ topic_str[2] = Slash

\* Faulty variant of GeneralCallbackRuns: a message that fails validation is
\* dropped.
GeneralCallbackRunsIfValid(valid) == valid

\* The general callback is invoked whatever validate_message returned.
GeneralCallbackRuns(valid) == TRUE

Undecodable == [garbage |-> TRUE]

\* on_message_arrived of subscriber.cpp on Subscriber s: the members it leaves
\* and how often it invoked each callback.
arrival(s, topic_str, bytes) ==
    IF StartsWithState(topic_str)
    THEN [s EXCEPT !.arrived =
            [topic_str |-> topic_str,
             topic |-> Topic(<<>>, "STATE", SubSeq(topic_str, 3, Len(topic_str)), <<>>),
             decoded |-> bytes # Undecodable, valid |-> TRUE, callback |-> 1,
             command_callback |-> 0, registered |-> s.command_callback_,
             payload |-> bytes, warning |-> "none", before |-> s.node_states_]]
    ELSE LET topic == Topic_parse(topic_str)
         IN IF topic = ParseError \/ bytes = Undecodable
            THEN [s EXCEPT !.arrived =
                    [topic_str |-> topic_str, topic |-> topic,
                     decoded |-> bytes # Undecodable, valid |-> FALSE, callback |-> 0,
                     command_callback |-> 0, registered |-> s.command_callback_,
                     payload |-> bytes, warning |-> "none",
                     before |-> s.node_states_]]
            ELSE LET v == validate_message(s, topic, bytes)
                 IN [s EXCEPT
                       !.node_states_ = v.node_states_,
                       !.arrived =
                          [topic_str |-> topic_str, topic |-> topic, decoded |-> TRUE,
                           valid |-> v.valid,
                           callback |-> IF GeneralCallbackRuns(v.valid) THEN 1 ELSE 0,
                           command_callback |->
                              IF topic.message_type \in {"NCMD", "DCMD"}
                                 /\ s.command_callback_
                              THEN 1 ELSE 0,
                           registered |-> s.command_callback_,
                           payload |-> bytes,
                           warning |-> Warned(s, topic, bytes),
                           before |-> s.node_states_]]

\* What a broker can deliver: topics of every type for one node and one
\* device, a STATE topic, a topic that does not parse.
InboundTopics ==
    {Join(<<<<NAMESPACE>>, <<"Energy">>, <<type>>, <<"Gateway01">>>>) :
        type \in {"NBIRTH", "NDEATH", "NDATA", "NCMD"}}
    \cup {Join(<<<<NAMESPACE>>, <<"Energy">>, <<type>>, <<"Gateway01">>, <<"Sensor01">>>>) :
        type \in {"DBIRTH", "DDEATH", "DDATA", "DCMD"}}
    \cup {<<"STATE", Slash, "SCADA01">>, <<"Energy">>}

InboundMetrics ==
    LET bdSeq == Metric("bdSeq", FALSE, 0, 1)
    IN {<<>>, <<bdSeq>>,
        <<bdSeq, Metric("Temperature", TRUE, 1, 21)>>,
        <<Metric("", TRUE, 1, 22)>>}

InboundSeqs == {NoSeq, 0, 5}

InboundPayloads ==
    {Decoded(7, q # NoSeq, IF q = NoSeq THEN 0 ELSE q, ms) :
        q \in InboundSeqs, ms \in InboundMetrics}
    \cup {Undecodable}

Subscriber_set_command_callback ==
    /\ sub' = [sub EXCEPT !.command_callback_ = TRUE]
    /\ UNCHANGED <<thr, fn, mutex, host, hostOp, cmd, impl, config, node, mqtt, obs,
                   lastOp>>

Subscriber_on_message_arrived ==
    /\ \E topic_str \in InboundTopics, bytes \in InboundPayloads :
          sub' = arrival(sub, topic_str, bytes)
    /\ UNCHANGED <<thr, fn, mutex, host, hostOp, cmd, impl, config, node, mqtt, obs,
                   lastOp>>

InitSubscriber ==
    /\ NoSession
    /\ thr = NoThreads
    /\ fn = NoCall
    /\ \E validate_sequence \in BOOLEAN : sub = Subscriber(validate_sequence)

NextSubscriber == Subscriber_set_command_callback \/ Subscriber_on_message_arrived

SpecSubscriber == InitSubscriber /\ [][NextSubscriber]_vars

\* A message has arrived whose topic parsed and whose bytes decoded.
Processed == sub.arrived.topic # ParseError /\ sub.arrived.decoded

\* C22: for every inbound message whose topic parses and whose bytes decode,
\* the general message callback is invoked exactly once whatever validation
\* said, and for NCMD and DCMD the command callback is invoked exactly once as
\* well when one is registered (and not at all otherwise).
C22_CallbacksOncePerMessage ==
    Processed =>
        /\ sub.arrived.callback = 1
        /\ sub.arrived.command_callback =
              (IF sub.arrived.topic.message_type \in {"NCMD", "DCMD"}
                  /\ sub.arrived.registered
               THEN 1 ELSE 0)

\* A message that failed validation has been handed to the general callback.
C22_Witness ==
    Processed /\ ~sub.arrived.valid /\ sub.arrived.callback = 1

\* Subscriber::get_metric_name, declared in subscriber.hpp and defined nowhere
\* in subscriber.cpp: as the header documents it, the name stored under the
\* alias in the alias_map of the node (empty device_id) or of the device, and
\* no value when the node, the device or the alias is not there.
get_metric_name(s, group_id, edge_node_id, device_id, alias) ==
    IF ~Find(s.node_states_, edge_node_id) THEN "nullopt"
    ELSE LET state == s.node_states_[edge_node_id]
             alias_map == IF device_id = <<>> THEN state.alias_map
                          ELSE IF Find(state.devices, device_id)
                               THEN state.devices[device_id].alias_map
                               ELSE <<>>
         IN IF Find(alias_map, alias) THEN alias_map[alias] ELSE "nullopt"

\* C23: after an NBIRTH (or DBIRTH) has been processed and accepted, every
\* metric of it that carries both a name and an alias resolves: get_metric_name
\* for the node (or device) and that alias returns that name.
C23_AliasResolvesAfterBirth ==
    /\ Processed /\ sub.validate_sequence /\ sub.arrived.valid
    /\ sub.arrived.topic.message_type \in {"NBIRTH", "DBIRTH"}
    => \A i \in 1..Len(sub.arrived.payload.metrics) :
          LET metric == sub.arrived.payload.metrics[i]
          IN metric.name # "" /\ metric.has_alias =>
                get_metric_name(sub, sub.arrived.topic.group_id,
                                sub.arrived.topic.edge_node_id,
                                sub.arrived.topic.device_id, metric.alias) = metric.name

\* ------------------------------------------- Subscriber, two threads by access
\* An application thread calls get_node_state and set_command_callback while
\* the client library's thread runs on_message_arrived. A read or write of a
\* member takes time: it begins and it ends, and whatever another thread does
\* to the same member in between overlaps it. No statement of subscriber.cpp
\* locks mutex_, so the steps below are all there is.
Access(step, member, write) == [step |-> step, member |-> member, write |-> write]

ReadOf(member) == <<Access("begin", member, FALSE), Access("end", member, FALSE)>>
WriteOf(member) == <<Access("begin", member, TRUE), Access("end", member, TRUE)>>

Subscriber_steps(op) ==
    CASE op = "get_node_state" -> ReadOf("node_states_")
      [] op = "set_command_callback" -> WriteOf("command_callback_")
      [] op = "on_message_arrived" -> WriteOf("node_states_") \o ReadOf("command_callback_")

SubscriberThreads == {"application", "library"}

Outside ==
    [todo |-> <<>>, raced |-> FALSE, topic_str |-> <<>>, payload |-> <<>>,
     result |-> "none"]

\* The thread is between the beginning and the end of an access.
InAccess(t) == thr[t].todo # <<>> /\ Head(thr[t].todo).step = "end"

Conflict(a, b) == a.member = b.member /\ (a.write \/ b.write)

\* Thread t is inside an access that the access a of another thread overlaps.
Overlapped(t, a) == InAccess(t) /\ Conflict(Head(thr[t].todo), a)

Subscriber_called(t) ==
    /\ t = "application" /\ thr[t].todo = <<>>
    /\ \E op \in {"get_node_state", "set_command_callback"} :
          thr' = [thr EXCEPT ![t] = [Outside EXCEPT !.todo = Subscriber_steps(op)]]
    /\ UNCHANGED <<sub, fn, mutex, host, hostOp, cmd, impl, config, node, mqtt, obs, lastOp>>

ThreadInbound ==
    {Join(<<<<NAMESPACE>>, <<"Energy">>, <<type>>, <<"Gateway01">>>>) :
        type \in {"NBIRTH", "NCMD"}}

Subscriber_delivered(t) ==
    /\ t = "library" /\ thr[t].todo = <<>>
    /\ \E topic_str \in ThreadInbound :
          thr' = [thr EXCEPT ![t] =
                    [Outside EXCEPT !.todo = Subscriber_steps("on_message_arrived"),
                                    !.topic_str = topic_str,
                                    !.payload = Decoded(7, FALSE, 0,
                                                        <<Metric("bdSeq", FALSE, 0, 1)>>)]]
    /\ UNCHANGED <<sub, fn, mutex, host, hostOp, cmd, impl, config, node, mqtt, obs, lastOp>>

\* An access begins; it and every access it overlaps are marked.
access_begins(t) ==
    /\ thr[t].todo # <<>> /\ Head(thr[t].todo).step = "begin"
    /\ LET a == Head(thr[t].todo)
           hit == \E u \in SubscriberThreads \ {t} : Overlapped(u, a)
       IN thr' = [u \in SubscriberThreads |->
                    IF u = t THEN [thr[t] EXCEPT !.todo = Tail(@), !.raced = hit]
                    ELSE IF Overlapped(u, a) THEN [thr[u] EXCEPT !.raced = TRUE]
                    ELSE thr[u]]
    /\ UNCHANGED <<sub, fn, mutex, host, hostOp, cmd, impl, config, node, mqtt, obs, lastOp>>

\* An access ends and has its effect. A write stores what the statement
\* computes; a read that a write overlapped has read anything.
access_ends(t) ==
    /\ InAccess(t)
    /\ LET a == Head(thr[t].todo)
           topic == Topic_parse(thr[t].topic_str)
       IN \E torn \in BOOLEAN :
            LET registered == IF thr[t].raced THEN torn ELSE sub.command_callback_
                found == IF thr[t].raced
                         THEN (IF torn THEN "torn" ELSE "nullopt")
                         ELSE IF Find(sub.node_states_, <<"Gateway01">>)
                              THEN "found" ELSE "nullopt"
            IN /\ thr' = [thr EXCEPT ![t].todo = Tail(@), ![t].raced = FALSE,
                                     ![t].result = IF a.member = "node_states_" /\ ~a.write
                                                   THEN found ELSE @]
               /\ sub' =
                    CASE a.member = "node_states_" /\ a.write ->
                           [sub EXCEPT !.node_states_ =
                               validate_message(sub, topic, thr[t].payload).node_states_]
                      [] a.member = "command_callback_" /\ a.write ->
                           [sub EXCEPT !.command_callback_ = TRUE]
                      [] a.member = "command_callback_" /\ ~a.write ->
                           [sub EXCEPT !.arrived =
                               [topic_str |-> thr[t].topic_str, topic |-> topic,
                                decoded |-> TRUE, valid |-> TRUE, callback |-> 1,
                                command_callback |->
                                   IF topic.message_type \in {"NCMD", "DCMD"} /\ registered
                                   THEN 1 ELSE 0,
                                registered |-> registered, payload |-> thr[t].payload]]
                      [] OTHER -> sub
    /\ UNCHANGED <<fn, mutex, host, hostOp, cmd, impl, config, node, mqtt, obs, lastOp>>

InitSubscriberThreads ==
    /\ NoSession
    /\ fn = NoCall
    /\ thr = [t \in SubscriberThreads |-> Outside]
    /\ \E validate_sequence \in BOOLEAN : sub = Subscriber(validate_sequence)

NextSubscriberThreads ==
    \/ \E t \in SubscriberThreads : Subscriber_called(t)
    \/ \E t \in SubscriberThreads : Subscriber_delivered(t)
    \/ \E t \in SubscriberThreads : access_begins(t)
    \/ \E t \in SubscriberThreads : access_ends(t)

SpecSubscriberThreads == InitSubscriberThreads /\ [][NextSubscriberThreads]_vars

\* C24: with Subscriber methods called beside message delivery, no two
\* accesses to the node-state map (message arrival, get_node_state) or to the
\* command-callback slot (set_command_callback, message arrival) overlap
\* when one of the two is a write: the mutex keeps them apart.
C24_AccessesNeverOverlap ==
    \A t \in SubscriberThreads :
        InAccess(t) =>
            \A u \in SubscriberThreads \ {t} : ~Overlapped(u, Head(thr[t].todo))

\* ------------------------------------------------- C API payload round trip
\* A C++ integer value is its type and its two's-complement bytes, least
\* significant first; a float, double, bool or string value is its type and
\* the value itself.
CppTypes ==
    {"int8_t", "int16_t", "int32_t", "int64_t", "uint8_t", "uint16_t", "uint32_t",
     "uint64_t", "float", "double", "bool", "string_view"}

IntegerTypes ==
    {"int8_t", "int16_t", "int32_t", "int64_t", "uint8_t", "uint16_t", "uint32_t",
     "uint64_t"}

IsSigned(T) == T \in {"int8_t", "int16_t", "int32_t", "int64_t"}

SizeOf(T) ==
    CASE T \in {"int8_t", "uint8_t"} -> 1
      [] T \in {"int16_t", "uint16_t"} -> 2
      [] T \in {"int32_t", "uint32_t"} -> 4
      [] T \in {"int64_t", "uint64_t"} -> 8

RECURSIVE Bytes(_, _)
Bytes(v, n) == IF n = 0 THEN <<>> ELSE <<v % 256>> \o Bytes(v \div 256, n - 1)

\* An integer given by its number, any other value by its bytes.
Value(T, v) == [T |-> T, v |-> IF T \in IntegerTypes THEN Bytes(v, SizeOf(T)) ELSE v]

\* An integral conversion: truncation, or sign- or zero-extension by the
\* source type.
static_cast(T, value) ==
    LET from == Len(value.v)
        fill == IF IsSigned(value.T) /\ value.v[from] >= 128 THEN 255 ELSE 0
    IN [T |-> T,
        v |-> [i \in 1..SizeOf(T) |-> IF i <= from THEN value.v[i] ELSE fill]]

\* detail::get_datatype<T>().
get_datatype(T) ==
    CASE T = "int8_t" -> "Int8"
      [] T = "int16_t" -> "Int16"
      [] T = "int32_t" -> "Int32"
      [] T = "int64_t" -> "Int64"
      [] T = "uint8_t" -> "UInt8"
      [] T = "uint16_t" -> "UInt16"
      [] T = "uint32_t" -> "UInt32"
      [] T = "uint64_t" -> "UInt64"
      [] T = "float" -> "Float"
      [] T = "double" -> "Double"
      [] T = "bool" -> "Boolean"
      [] OTHER -> "String"

\* detail::set_metric_value: the value field written and what it holds.
\* set_int_value takes a uint32_t and set_long_value a uint64_t.
set_metric_value(value) ==
    CASE value.T \in {"int8_t", "int16_t", "int32_t", "uint8_t", "uint16_t", "uint32_t"} ->
             [field |-> "int_value", v |-> static_cast("uint32_t", value).v]
      [] value.T \in {"int64_t", "uint64_t"} ->
             [field |-> "long_value", v |-> static_cast("uint64_t", value).v]
      [] value.T = "float" -> [field |-> "float_value", v |-> value.v]
      [] value.T = "double" -> [field |-> "double_value", v |-> value.v]
      [] value.T = "bool" -> [field |-> "boolean_value", v |-> value.v]
      [] OTHER -> [field |-> "string_value", v |-> value.v]

nullopt == [has_value |-> FALSE, v |-> 0]
optional(v) == [has_value |-> TRUE, v |-> v]

\* detail::add_metric_to_payload: the name is set unless empty, the alias
\* if given, the datatype from the value's type, then the value.
add_metric_to_payload(b, name, value, alias) ==
    LET set == set_metric_value(value)
        metric == [name |-> name,
                   value |-> [has_name |-> name # "", has_alias |-> alias.has_value,
                              alias |-> alias.v, datatype |-> get_datatype(value.T),
                              field |-> set.field, v |-> set.v]]
    IN [b EXCEPT !.payload.metrics = Append(@, metric)]

PayloadBuilder_add_metric(b, name, value) == add_metric_to_payload(b, name, value, nullopt)

add_metric_with_alias(b, name, alias, value) ==
    add_metric_to_payload(b, name, value, optional(alias))

add_metric_by_alias(b, alias, value) == add_metric_to_payload(b, "", value, optional(alias))

set_timestamp(b) == [b EXCEPT !.payload.has_timestamp = TRUE]

\* The type of the value the generated accessor metric.long_value() returns:
\* the schema's long_value field is a uint64.
long_value_type == "uint64_t"

\* One metric of copy_metrics_to_builder: the value handed to the builder
\* by the metric's datatype, or none for a datatype the switch leaves out.
CopiedValue(m) ==
    CASE m.datatype \in {"Int8", "Int16", "Int32"} ->
             optional(static_cast("int32_t", [T |-> "uint32_t", v |-> m.v]))
      [] m.datatype = "Int64" -> optional([T |-> long_value_type, v |-> m.v])
      [] m.datatype \in {"UInt8", "UInt16", "UInt32"} ->
             optional(static_cast("uint32_t", [T |-> "uint32_t", v |-> m.v]))
      [] m.datatype = "UInt64" ->
             optional(static_cast("uint64_t", [T |-> long_value_type, v |-> m.v]))
      [] m.datatype = "Float" -> optional([T |-> "float", v |-> m.v])
      [] m.datatype = "Double" -> optional([T |-> "double", v |-> m.v])
      [] m.datatype = "Boolean" -> optional([T |-> "bool", v |-> m.v])
      [] m.datatype \in {"String", "Text"} -> optional([T |-> "string", v |-> m.v])
      [] OTHER -> nullopt

CopyMetric(b, metric) ==
    LET m == metric.value
        name == IF m.has_name THEN metric.name ELSE ""
        copied == CopiedValue(m)
    IN IF ~copied.has_value THEN b
       ELSE IF m.has_alias /\ name = "" THEN add_metric_by_alias(b, m.alias, copied.v)
       ELSE IF m.has_alias THEN add_metric_with_alias(b, name, m.alias, copied.v)
       ELSE PayloadBuilder_add_metric(b, name, copied.v)

RECURSIVE CopyMetrics(_, _)
CopyMetrics(b, metrics) ==
    IF metrics = <<>> THEN b
    ELSE CopyMetrics(CopyMetric(b, Head(metrics)), Tail(metrics))

copy_metrics_to_builder(builder, proto_payload) ==
    LET stamped == IF proto_payload.has_timestamp THEN set_timestamp(builder) ELSE builder
        numbered == IF proto_payload.has_seq THEN set_seq(stamped, proto_payload.seq)
                    ELSE stamped
    IN CopyMetrics(numbered, proto_payload.metrics)

\* ---- the C API
nullptr == [null |-> TRUE]

sparkplug_payload_create == [null |-> FALSE, impl |-> PayloadBuilder]

sparkplug_payload_set_seq(payload, seq) == [payload EXCEPT !.impl = set_seq(@, seq)]

\* sparkplug_payload_add_int8 ... sparkplug_payload_add_string: the value
\* goes to add_metric with the C type of the function's parameter.
\* Nothing is added for a null name.
sparkplug_payload_add(payload, name_given, name, value) ==
    IF ~name_given THEN payload
    ELSE [payload EXCEPT !.impl = PayloadBuilder_add_metric(@, name, value)]

\* The types that have _with_alias and _by_alias functions.
AliasTypes == {"int32_t", "int64_t", "uint32_t", "uint64_t", "float", "double", "bool"}

sparkplug_payload_add_with_alias(payload, name_given, name, alias, value) ==
    IF ~name_given THEN payload
    ELSE [payload EXCEPT !.impl = add_metric_with_alias(@, name, alias, value)]

sparkplug_payload_add_by_alias(payload, alias, value) ==
    [payload EXCEPT !.impl = add_metric_by_alias(@, alias, value)]

\* sparkplug_payload_serialize: the size written and the bytes, size 0 and
\* nothing written when the buffer is too small.
sparkplug_payload_serialize(payload, buffer_size) ==
    LET data == build(payload.impl)
    IN IF Len(data) > buffer_size THEN [size |-> 0, buffer |-> <<>>]
       ELSE [size |-> Len(data), buffer |-> data]

sparkplug_payload_parse(data, data_len) ==
    IF data_len = 0 THEN nullptr
    ELSE [null |-> FALSE,
          impl |-> copy_metrics_to_builder(PayloadBuilder, ParseFromArray(data))]

sparkplug_payload_get_metric_count(payload) == Len(payload.impl.payload.metrics)

\* sparkplug_payload_get_metric_at for an index in range: name, alias,
\* datatype, and the union member read by the datatype with its contents.
sparkplug_payload_get_metric_at(payload, index) ==
    LET metric == payload.impl.payload.metrics[index]
        m == metric.value
        int_value == [T |-> "uint32_t", v |-> m.v]
        long_value == [T |-> long_value_type, v |-> m.v]
    IN [has_name |-> m.has_name,
        name |-> IF m.has_name THEN metric.name ELSE "",
        has_alias |-> m.has_alias,
        alias |-> IF m.has_alias THEN m.alias ELSE 0,
        datatype |-> m.datatype,
        value |->
            CASE m.datatype \in {"Int8", "Int16", "Int32"} ->
                     [member |-> "int32_value", v |-> static_cast("int32_t", int_value).v]
              [] m.datatype = "Int64" ->
                     [member |-> "int64_value", v |-> static_cast("int64_t", long_value).v]
              [] m.datatype \in {"UInt8", "UInt16", "UInt32"} ->
                     [member |-> "uint32_value", v |-> static_cast("uint32_t", int_value).v]
              [] m.datatype = "UInt64" ->
                     [member |-> "uint64_value", v |-> static_cast("uint64_t", long_value).v]
              [] m.datatype = "Float" -> [member |-> "float_value", v |-> m.v]
              [] m.datatype = "Double" -> [member |-> "double_value", v |-> m.v]
              [] m.datatype = "Boolean" -> [member |-> "boolean_value", v |-> m.v]
              [] m.datatype \in {"String", "Text"} -> [member |-> "string_value", v |-> m.v]
              [] OTHER -> [member |-> "none", v |-> 0]]

\* ---- what a C caller can build
MaxMetrics == 2

\* -1 for the signed types and 200 for the unsigned; 1.5 as a float and as a
\* double (IEEE 754), true, and the string "On".
InputValues(T) ==
    CASE IsSigned(T) -> {Value(T, 0 - 1)}
      [] T \in IntegerTypes -> {Value(T, 200)}
      [] T = "float" -> {Value(T, <<0, 0, 192, 63>>)}
      [] T = "double" -> {Value(T, <<0, 0, 0, 0, 0, 0, 248, 63>>)}
      [] T = "bool" -> {Value(T, <<1>>)}
      [] OTHER -> {Value(T, <<79, 110>>)}

\* One sparkplug_payload_add_* call: by name for every type (and with the
\* empty name or a null name for int32), with alias and by alias for the
\* types that have the functions.
AddCalls ==
    UNION {{[f |-> "add", name_given |-> TRUE, name |-> "Temperature", alias |-> 0,
             value |-> value] : value \in InputValues(T)} : T \in CppTypes}
    \cup {[f |-> "add", name_given |-> given, name |-> "", alias |-> 0, value |-> value] :
              given \in BOOLEAN, value \in InputValues("int32_t")}
    \cup UNION {{[f |-> "add_with_alias", name_given |-> TRUE, name |-> "Temperature",
                  alias |-> 1, value |-> value] : value \in InputValues(T)} :
                T \in AliasTypes}
    \cup {[f |-> "add_with_alias", name_given |-> TRUE, name |-> "", alias |-> 1,
           value |-> value] : value \in InputValues("int32_t")}
    \cup UNION {{[f |-> "add_by_alias", name_given |-> TRUE, name |-> "", alias |-> 1,
                  value |-> value] : value \in InputValues(T)} : T \in AliasTypes}

Called(payload, c) ==
    CASE c.f = "add" -> sparkplug_payload_add(payload, c.name_given, c.name, c.value)
      [] c.f = "add_with_alias" ->
             sparkplug_payload_add_with_alias(payload, c.name_given, c.name, c.alias, c.value)
      [] OTHER -> sparkplug_payload_add_by_alias(payload, c.alias, c.value)

RECURSIVE CallSequences(_)
CallSequences(n) ==
    IF n = 0 THEN {<<>>}
    ELSE LET shorter == CallSequences(n - 1)
         IN shorter \cup {Append(l, c) : l \in {k \in shorter : Len(k) = n - 1},
                                         c \in AddCalls}

RECURSIVE Built(_, _)
Built(payload, calls) ==
    IF calls = <<>> THEN payload ELSE Built(Called(payload, Head(calls)), Tail(calls))

\* Payloads built through the C API: created, seq set or not, metrics added.
CApiSeqs == {42}
CApiPayloads ==
    LET started == {sparkplug_payload_create}
                   \cup {sparkplug_payload_set_seq(sparkplug_payload_create, s) :
                             s \in CApiSeqs}
    IN {Built(p, calls) : p \in started, calls \in CallSequences(MaxMetrics)}

BufferSizes == {0, 4096}

InitCApi ==
    /\ NoSession
    /\ thr = NoThreads
    /\ sub = NoSubscriber
    /\ \E payload \in CApiPayloads : fn = [f |-> "sparkplug_payload", payload |-> payload]

sparkplug_payload_serialize_called ==
    /\ fn.f = "sparkplug_payload"
    /\ \E buffer_size \in BufferSizes :
           fn' = [f |-> "serialize", payload |-> fn.payload,
                  written |-> sparkplug_payload_serialize(fn.payload, buffer_size)]
    /\ UNCHANGED <<thr, sub, mutex, host, hostOp, cmd, impl, config, node, mqtt, obs,
                   lastOp>>

sparkplug_payload_parse_called ==
    /\ fn.f = "serialize"
    /\ fn' = [f |-> "parse_payload", payload |-> fn.payload, written |-> fn.written,
              parsed |-> sparkplug_payload_parse(fn.written.buffer, fn.written.size)]
    /\ UNCHANGED <<thr, sub, mutex, host, hostOp, cmd, impl, config, node, mqtt, obs,
                   lastOp>>

NextCApi == sparkplug_payload_serialize_called \/ sparkplug_payload_parse_called

SpecCApi == InitCApi /\ [][NextCApi]_vars

\* What the accessors report of a payload: the metric count and each metric.
Read(payload) ==
    [i \in 1..sparkplug_payload_get_metric_count(payload) |->
         sparkplug_payload_get_metric_at(payload, i)]

Kept(field) ==
    LET before == Read(fn.payload)
        after == Read(fn.parsed)
    IN /\ Len(after) = Len(before)
       /\ \A i \in 1..Len(before) : after[i][field] = before[i][field]

\* C27: parsing the bytes sparkplug_payload_serialize produced for a payload
\* built through the C API gives a payload with the same number of metrics,
\* each with the name, alias, datatype tag and value it had, for every type,
\* Int8, Int16, UInt8 and UInt16 included.
C27_ParseKeepsMetrics ==
    fn.f = "parse_payload" /\ fn.written.size > 0 =>
        /\ ~fn.parsed.null
        /\ \A field \in {"has_name", "name", "has_alias", "alias", "datatype", "value"} :
               Kept(field)

\* ------------------------------------------- Subscriber sequence validation
\* A Subscriber with validation enabled receiving the six message types that
\* validate_message tracks, for one node and two devices, with seq absent, 0,
\* 1 or 255 and bdSeq absent, 1 or 2.
ValidationDevices == {"Sensor01", "Sensor02"}

ValidationSeqs == {NoSeq, 0, 1, 255}

ValidationPayload(q, ms) == Decoded(7, q # NoSeq, IF q = NoSeq THEN 0 ELSE q, ms)

\* Topic and payload of the inbound messages: node births and deaths with
\* any of the bdSeq metrics, node data, and births, data and deaths of the
\* devices.
ValidationMessages ==
    {<<Join(<<<<NAMESPACE>>, <<"Energy">>, <<type>>, <<"Gateway01">>>>),
       ValidationPayload(q, ms)>> :
        type \in {"NBIRTH", "NDEATH"}, q \in ValidationSeqs,
        ms \in {<<>>, <<Metric("bdSeq", FALSE, 0, 1)>>, <<Metric("bdSeq", FALSE, 0, 2)>>}}
    \cup {<<Join(<<<<NAMESPACE>>, <<"Energy">>, <<"NDATA">>, <<"Gateway01">>>>),
            ValidationPayload(q, <<>>)>> : q \in ValidationSeqs}
    \cup {<<Join(<<<<NAMESPACE>>, <<"Energy">>, <<type>>, <<"Gateway01">>, <<d>>>>),
            ValidationPayload(q, <<>>)>> :
        type \in {"DBIRTH", "DDEATH", "DDATA"}, d \in ValidationDevices,
        q \in ValidationSeqs}

validated_message_arrived ==
    /\ \E m \in ValidationMessages : sub' = arrival(sub, m[1], m[2])
    /\ UNCHANGED <<thr, fn, mutex, host, hostOp, cmd, impl, config, node, mqtt, obs,
                   lastOp>>

InitValidation ==
    /\ NoSession
    /\ thr = NoThreads
    /\ fn = NoCall
    /\ sub = Subscriber(TRUE)

NextValidation == validated_message_arrived

SpecValidation == InitValidation /\ [][NextValidation]_vars

\* The node entry of the arrived message's node before and after the
\* arrival; before, a node without an entry is as a default entry.
ArrivedNode == sub.node_states_[sub.arrived.topic.edge_node_id]
ArrivedNodeBefore ==
    Subscript(sub.arrived.before, sub.arrived.topic.edge_node_id, NodeState)
        [sub.arrived.topic.edge_node_id]

Arrived(type) == Processed /\ sub.arrived.topic.message_type = type

\* C33: with validation enabled an accepted NBIRTH sets the node's last_seq
\* to 0; for an NDATA that carries a seq and follows an NBIRTH, a gap is
\* reported exactly when seq differs from (last_seq + 1) mod 256, and
\* last_seq becomes the received seq either way, so that in-order NDATAs
\* raise no warning and wrap from 255 to 0.
C33_GapExactlyWhenNotSuccessor ==
    /\ Arrived("NBIRTH") /\ sub.arrived.valid => ArrivedNode.last_seq = 0
    /\ Arrived("NDATA") /\ ArrivedNodeBefore.birth_received /\ sub.arrived.payload.has_seq =>
          /\ (sub.arrived.warning = "sequence gap")
                <=> (sub.arrived.payload.seq # (ArrivedNodeBefore.last_seq + 1) % 256)
          /\ ArrivedNode.last_seq = sub.arrived.payload.seq

\* An NDATA with seq 0 arrived after one with seq 255 and raised no warning.
C33_Witness ==
    /\ Arrived("NDATA") /\ ArrivedNodeBefore.birth_received
    /\ ArrivedNodeBefore.last_seq = 255
    /\ sub.arrived.payload.has_seq /\ sub.arrived.payload.seq = 0
    /\ sub.arrived.warning = "none" /\ ArrivedNode.last_seq = 0

\* What an NDEATH leaves of the node: marked offline, with the bd_seq, last_seq
\* and birth_received it had, a mismatching bdSeq having raised a warning only.
NDeathTakesNodeOffline ==
    /\ sub.arrived.valid
    /\ Find(sub.node_states_, sub.arrived.topic.edge_node_id)
    /\ ~ArrivedNode.is_online
    /\ ArrivedNode.bd_seq = ArrivedNodeBefore.bd_seq
    /\ ArrivedNode.last_seq = ArrivedNodeBefore.last_seq
    /\ ArrivedNode.birth_received = ArrivedNodeBefore.birth_received
    /\ (sub.arrived.warning = "bdSeq mismatch")
          <=> (/\ ArrivedNodeBefore.birth_received
               /\ FirstBdSeq(sub.arrived.payload).bd_seq # ArrivedNodeBefore.bd_seq)

ArrivedDeviceBirthBefore ==
    /\ Find(ArrivedNodeBefore.devices, sub.arrived.topic.device_id)
    /\ ArrivedNodeBefore.devices[sub.arrived.topic.device_id].birth_received

\* C35: with validation enabled, a DBIRTH before an accepted NBIRTH of its
\* node is flagged invalid, and so is a DDATA for a device unless both an
\* NBIRTH of the node and a DBIRTH of the device were accepted before; a
\* DBIRTH or DDATA so rejected creates no device entry and changes no
\* device's online flag or last_seq.
C35_DeviceMessagesNeedBirths ==
    sub.validate_sequence =>
        /\ Arrived("DBIRTH") /\ ~ArrivedNodeBefore.birth_received => ~sub.arrived.valid
        /\ Arrived("DDATA")
              /\ ~(ArrivedNodeBefore.birth_received /\ ArrivedDeviceBirthBefore)
              => ~sub.arrived.valid
        /\ (Arrived("DBIRTH") \/ Arrived("DDATA")) /\ ~sub.arrived.valid =>
              /\ DOMAIN ArrivedNode.devices = DOMAIN ArrivedNodeBefore.devices
              /\ \A d \in DOMAIN ArrivedNode.devices :
                    /\ ArrivedNode.devices[d].is_online
                          = ArrivedNodeBefore.devices[d].is_online
                    /\ ArrivedNode.devices[d].last_seq
                          = ArrivedNodeBefore.devices[d].last_seq

\* A DDATA for a device without DBIRTH was rejected while another device of
\* the node was online.
C35_Witness ==
    /\ Arrived("DDATA") /\ sub.validate_sequence /\ ~sub.arrived.valid
    /\ ArrivedNodeBefore.birth_received /\ ~ArrivedDeviceBirthBefore
    /\ \E d \in DOMAIN ArrivedNode.devices : ArrivedNode.devices[d].is_online

\* birth_received of a node or device entry that had it before the last
\* arrival is still set.
BirthReceivedKept ==
    \A n \in DOMAIN sub.arrived.before :
        /\ sub.arrived.before[n].birth_received =>
              n \in DOMAIN sub.node_states_ /\ sub.node_states_[n].birth_received
        /\ \A d \in DOMAIN sub.arrived.before[n].devices :
              sub.arrived.before[n].devices[d].birth_received =>
                  /\ n \in DOMAIN sub.node_states_
                  /\ d \in DOMAIN sub.node_states_[n].devices
                  /\ sub.node_states_[n].devices[d].birth_received

\* C39: with validation enabled, in every reachable Subscriber state a node
\* marked online has birth_received, devices exist only under a node with
\* birth_received, a device marked online has birth_received, and no arrival
\* (NDEATH, DDEATH and a later NBIRTH included) clears a birth_received.
C39_BirthReceivedInvariants ==
    sub.validate_sequence =>
        /\ \A n \in DOMAIN sub.node_states_ :
              /\ sub.node_states_[n].is_online => sub.node_states_[n].birth_received
              /\ DOMAIN sub.node_states_[n].devices # {} =>
                    sub.node_states_[n].birth_received
              /\ \A d \in DOMAIN sub.node_states_[n].devices :
                    sub.node_states_[n].devices[d].is_online =>
                        sub.node_states_[n].devices[d].birth_received
        /\ BirthReceivedKept

\* An NDEATH arrived for a node that has a device: node and device keep
\* birth_received, the node is offline.
C39_Witness ==
    /\ Arrived("NDEATH") /\ sub.validate_sequence
    /\ ArrivedNodeBefore.birth_received /\ ArrivedNodeBefore.is_online
    /\ ~ArrivedNode.is_online /\ ArrivedNode.birth_received
    /\ \E d \in DOMAIN ArrivedNode.devices : ArrivedNode.devices[d].birth_received

\* Subscriber::get_node_state: the entry found, or nothing.
get_node_state(s, edge_node_id) ==
    IF Find(s.node_states_, edge_node_id)
    THEN [has_value |-> TRUE, v |-> s.node_states_[edge_node_id]]
    ELSE [has_value |-> FALSE, v |-> NodeState]

\* The ids an inbound topic can name.
InboundNodeIds == {<<"Gateway01">>, <<"SCADA01">>, <<"Energy">>}

PublishingCalls ==
    {"publish_birth", "publish_data", "publish_death", "publish_device_birth",
     "publish_device_data", "publish_device_death", "rebirth"}

\* C32: the EdgeNode connection-lost callback clears the connected flag and
\* changes no other member; from then until connect() next returns success,
\* every publish_* call and rebirth() fails, publishes nothing and leaves
\* seq, bd_seq and the device registry as they were.
C32_NothingPublishedAfterLoss ==
    [][/\ lastOp'.op = "on_connection_lost" =>
             node' = [node EXCEPT !.is_connected = FALSE]
       /\ impl = "EdgeNode" /\ obs.lost /\ lastOp'.op \in PublishingCalls =>
             /\ ~lastOp'.ok
             /\ lastOp'.msg = NoMsg
             /\ node'.seq_num = node.seq_num
             /\ node'.bd_seq_num = node.bd_seq_num
             /\ node'.device_states = node.device_states]_vars

\* ------------------------------------------------------ calls that return
\* A thread inside a call goes on when it can: a timed wait ends, a mutex
\* held is released and a mutex that becomes free again and again is
\* acquired; a callback that was invoked runs and returns.
FairThreads ==
    \A t \in MutexThreads :
        /\ WF_vars(proceed(t))
        /\ WF_vars(mutex_unlock(t))
        /\ SF_vars(mutex_lock(t))
        /\ WF_vars(callback_invoked(t))
        /\ WF_vars(callback_returns(t))

SpecReturn == InitMutex /\ [][NextMutex]_vars /\ FairThreads

MaxPromises == 3   \* no wait is begun once this many promises have been made

Promises == 1..MaxPromises
Unset == "unset"

\* The application thread is in no call; nothing is registered at the transport.
NoWaits ==
    [f |-> "promise",
     call |-> "none",        \* the call the application thread is in
     wait |-> "none",        \* the wait it is in: "connect", "subscribe", "disconnect"
     waiting |-> 0,          \* the promise whose future it waits on
     live |-> {},            \* promises in scope on its stack
     state |-> [p \in Promises |-> Unset],
     registered |-> {},      \* [wait, context] of operations the transport has not completed
     made |-> 0,
     client |-> FALSE,       \* client_ is set
     touched |-> "none",     \* what the latest completion callback dereferenced
     crashed |-> FALSE,
     returned |-> "none"]

other_vars == <<impl, config, node, mqtt, lastOp, obs, host, hostOp, cmd, thr, sub, mutex>>

Waiting == fn.call # "none"

\* std::promise<void> p; opts.context = &p; MQTTAsync_<wait>(client, &opts)
Registered(w, f) ==
    LET p == f.made + 1 IN
    [f EXCEPT !.made = p,
              !.live = @ \cup {p},
              !.state[p] = Unset,
              !.registered = @ \cup {[wait |-> w, context |-> p]},
              !.wait = w,
              !.waiting = p]

\* The call returns: its stack frame, and the promises in it, are gone.
Returns(f, result) ==
    [f EXCEPT !.call = "none", !.wait = "none", !.waiting = 0, !.live = {},
              !.returned = result]

\* connect() up to its wait: a new client replaces client_ (the operations
\* registered with the old one go with it), the connect is started.
connect_begins ==
    /\ ~Waiting /\ ~fn.crashed
    /\ fn.made + (IF config.command_callback THEN 2 ELSE 1) <= MaxPromises
    /\ fn' = Registered("connect", [fn EXCEPT !.call = "connect", !.client = TRUE,
                                             !.registered = {}])
    /\ UNCHANGED other_vars

\* The promise awaited has not been set: wait_for returns future_status::timeout.
TimedOut == fn.state[fn.waiting] = Unset

\* connect_future.wait_for(CONNECTION_TIMEOUT_MS) ends: timeout, exception, or
\* success, followed by the NCMD subscription when a command callback is set.
connect_wait_ends ==
    /\ fn.wait = "connect" /\ ~fn.crashed
    /\ fn' = CASE TimedOut -> Returns(fn, "Connection timeout")
               [] fn.state[fn.waiting] = "exception" -> Returns(fn, "Connection failed")
               [] OTHER -> IF config.command_callback
                           THEN Registered("subscribe", fn)
                           ELSE Returns(fn, "ok")
    /\ UNCHANGED other_vars

\* subscribe_future.wait_for(SUBSCRIBE_TIMEOUT_MS) ends.
subscribe_wait_ends ==
    /\ fn.wait = "subscribe" /\ ~fn.crashed
    /\ fn' = CASE TimedOut -> Returns(fn, "NCMD subscription timeout")
               [] fn.state[fn.waiting] = "exception" -> Returns(fn, "NCMD subscription failed")
               [] OTHER -> Returns(fn, "ok")
    /\ UNCHANGED other_vars

\* disconnect() up to its wait.
disconnect_begins ==
    /\ ~Waiting /\ ~fn.crashed /\ fn.client
    /\ fn.made < MaxPromises
    /\ fn' = Registered("disconnect", [fn EXCEPT !.call = "disconnect"])
    /\ UNCHANGED other_vars

\* disconnect_future.wait_for(DISCONNECT_TIMEOUT_MS) ends: disconnect()
\* returns success on a timeout and swallows an exception.
disconnect_wait_ends ==
    /\ fn.wait = "disconnect" /\ ~fn.crashed
    /\ fn' = Returns(fn, "ok")
    /\ UNCHANGED other_vars

Outcomes == {"success", "failure"}

\* promise->set_value() / promise->set_exception(...) on a promise in scope.
Set(f, p, outcome) ==
    [f EXCEPT !.state[p] = IF outcome = "success" THEN "value" ELSE "exception"]

\* What dereferencing the address of a destroyed promise can do: nothing that
\* is noticed, a crash, or a write to whatever promise now lives on the stack.
Dangling(f, outcome) ==
    {f, [f EXCEPT !.crashed = TRUE]}
        \cup {Set(f, p, outcome) : p \in {q \in f.live : f.state[q] = Unset}}

\* The transport completes an operation and calls on_<wait>_success or
\* on_<wait>_failure with the context it was given.
completion_callback ==
    /\ ~fn.crashed
    /\ \E r \in fn.registered, outcome \in Outcomes :
          LET f == [fn EXCEPT !.registered = @ \ {r}] IN
          IF r.context \in fn.live
          THEN fn' = [Set(f, r.context, outcome) EXCEPT !.touched = "promise"]
          ELSE \E g \in Dangling(f, outcome) :
                  fn' = [g EXCEPT !.touched = "destroyed"]
    /\ UNCHANGED other_vars

InitPromise ==
    /\ NoSession
    /\ thr = NoThreads
    /\ sub = NoSubscriber
    /\ fn = NoWaits

\* The application sets or does not set a command callback before connecting.
promise_set_command_callback ==
    /\ fn.made = 0 /\ ~Waiting /\ ~config.command_callback
    /\ config' = [config EXCEPT !.command_callback = TRUE]
    /\ UNCHANGED <<impl, node, mqtt, lastOp, obs, host, hostOp, cmd, thr, sub, fn, mutex>>

NextPromise ==
    \/ promise_set_command_callback
    \/ connect_begins
    \/ connect_wait_ends
    \/ subscribe_wait_ends
    \/ disconnect_begins
    \/ disconnect_wait_ends
    \/ completion_callback

SpecPromise == InitPromise /\ [][NextPromise]_vars

\* C37: no completion callback dereferences the promise of a wait that has
\* already returned: whenever the transport calls a completion callback, the
\* promise its context points at is still in scope.
C37_CallbackFindsItsPromise == fn.f = "promise" => fn.touched # "destroyed"

\* ------------------------------------------- the reset by a birth, by thread
\* Thread t gives an NDATA payload its seq in this step.
Stamps(t) == thr[t].pc = "idle" /\ thr'[t].pc = "publish_data"

\* C36: in EdgeNode the reset of the sequence counter is atomic with the
\* publication of the NBIRTH (by publish_birth or by rebirth): whatever other
\* threads do, the NDATA payloads stamped after the birth was sent carry
\* 1, 2, 3, ..., the n-th of them n (mod 256).
C36_DataCountsFromBirth ==
    [][\A t \in Threads :
          impl = "EdgeNode" /\ obs.nbirth_in_session /\ Stamps(t) =>
              node'.seq_num = (obs.stamped + 1) % SEQ_NUMBER_MAX]_vars

\* ------------------------------------ an EdgeNode in front of a Subscriber
\* One application thread calls into an EdgeNode; the transport hands every
\* message the EdgeNode publishes to a validating Subscriber, in order and
\* without loss, before the next call is made.  Only calls that succeed are
\* made, the payloads carry no seq and no bdSeq of the caller's, and after a
\* connect() the first thing published is an NBIRTH.

\* The topic string of a published message.
WireTopic(msg) ==
    LET segments == to_string(Topic(GroupId, msg.type, EdgeNodeId, msg.device))
    IN Join([i \in 1..Len(segments) |-> <<segments[i]>>])

\* The payload as the Subscriber decodes it from the published bytes.
WirePayload(bytes) ==
    LET p == ParseFromArray(bytes)
    IN Decoded(0, p.has_seq, p.seq,
               [i \in 1..Len(p.metrics) |->
                   Metric(p.metrics[i].name, FALSE, 0, p.metrics[i].value)])

\* The latest call published a message the Subscriber has not been given.
Undelivered == lastOp.ok /\ lastOp.msg # NoMsg /\ lastOp.op # "message_arrived"

transport_delivers ==
    /\ Undelivered
    /\ sub' = arrival(sub, WireTopic(lastOp.msg), WirePayload(lastOp.msg.payload))
    /\ lastOp' = [lastOp EXCEPT !.op = "message_arrived"]
    /\ UNCHANGED <<thr, fn, mutex, host, hostOp, cmd, impl, config, node, mqtt, obs>>

\* Between an NBIRTH and data message 255 only data is published, so that the
\* run through the wrap stays small.
ShortOfData == node.seq_num <= MaxSeq

agreed_connect == ~Undelivered /\ ShortOfData /\ Connect({"connected"}) /\ lastOp'.ok

agreed_disconnect == ~Undelivered /\ ShortOfData /\ disconnect /\ lastOp'.ok

agreed_publish_birth ==
    ~Undelivered /\ ShortOfData /\ PublishBirth(AutoSeqBuilders, {TRUE}) /\ lastOp'.ok

agreed_publish_data ==
    /\ ~Undelivered /\ obs.nbirth_in_session
    /\ PublishData(AutoSeqBuilders, {TRUE}, FALSE) /\ lastOp'.ok

agreed_publish_device_birth ==
    /\ ~Undelivered /\ ShortOfData /\ obs.nbirth_in_session
    /\ PublishDeviceBirth(AutoSeqBuilders, {TRUE}) /\ lastOp'.ok

agreed_publish_device_data ==
    /\ ~Undelivered /\ ShortOfData /\ obs.nbirth_in_session
    /\ \A d \in Devices : node.device_states[d].seq_num <= MaxSeq
    /\ PublishDeviceData(AutoSeqBuilders, {TRUE}, FALSE) /\ lastOp'.ok

agreed_publish_device_death ==
    /\ ~Undelivered /\ ShortOfData /\ obs.nbirth_in_session
    /\ publish_device_death /\ lastOp'.ok

agreed_rebirth ==
    ~Undelivered /\ ShortOfData /\ obs.nbirth_in_session /\ rebirth /\ lastOp'.ok

agreed_publish_death ==
    ~Undelivered /\ ShortOfData /\ obs.nbirth_in_session /\ publish_death /\ lastOp'.ok

InitAgree ==
    /\ Constructed
    /\ impl = "EdgeNode"
    /\ thr = NoThreads
    /\ fn = NoCall
    /\ mutex = NoOwner
    /\ sub = Subscriber(TRUE)

NextAgree ==
    \/ agreed_connect
    \/ agreed_disconnect
    \/ agreed_publish_birth
    \/ agreed_publish_data
    \/ agreed_publish_device_birth
    \/ agreed_publish_device_data
    \/ agreed_publish_device_death
    \/ agreed_rebirth
    \/ agreed_publish_death
    \/ transport_delivers

SpecAgree == InitAgree /\ [][NextAgree]_vars

\* C38: the Subscriber accepts every message of such an EdgeNode and warns
\* about none: no sequence gap, no seq other than 0 on a birth, no missing
\* bdSeq, no bdSeq mismatch on the NDEATH, nothing before its birth.
C38_SubscriberAgrees ==
    sub.arrived # NoArrival =>
        /\ sub.arrived.decoded
        /\ sub.arrived.valid
        /\ sub.arrived.warning = "none"

\* An NDATA with seq 0 has arrived behind the one with seq 255, and an NDEATH
\* of a session opened by rebirth().
AgreedThroughWrap ==
    /\ Arrived("NDATA")
    /\ sub.arrived.payload.seq = 0
    /\ ArrivedNodeBefore.last_seq = 255

C38_Witness ==
    /\ Arrived("NDEATH")
    /\ FirstBdSeq(sub.arrived.payload).bd_seq = 2
    /\ ArrivedNodeBefore.is_online

====
